---- MODULE Spec2Model ----
(***************************************************************************)
(* LocalTalk validation scripts: the quality score, the three test         *)
(* orchestrators, the rule-based file scanner, the repository analysis     *)
(* and the brace-balance checker, each as a state machine over the same    *)
(* variables.  Every specification below starts one of the programs and    *)
(* leaves the variables of the others at their idle values.                *)
(***************************************************************************)
EXTENDS Integers, Sequences, FiniteSets, TLC

VARIABLES
    pc,              \* position of the running program
    issues,          \* results['issues']: critical / major / minor counts
    quality_score,   \* value returned by calculate_quality_score
    script,          \* the orchestrator script being run
    existing,        \* test script paths that exist on disk
    server_content,  \* test-critical-fixes: the checked texts that occur in LocalSendHttpServer.cs
    ps_cmd,          \* result of check_powershell_availability
    python_results,  \* run-all-tests: results of run_python_tests
    ps_results,      \* run-all-tests: results of simulate_powershell_tests
    all_results,     \* test-bug-fixes / test-critical-fixes: collected results
    test_scripts,    \* run-all-tests: the scripts discover_test_scripts found
    report,          \* report['summary'] of the running orchestrator, NoReport before it
    uncaught,        \* the exception that ended the run, if one escaped main
    exit_status,     \* process exit status, -1 while the process has not exited
    file_text,       \* the text of the C# file being scanned
    file_metrics,    \* what analyze_file_standards returned for it
    file_issues,     \* pre-commit hook: file_issues of the staged file
    csharp_violations,  \* what analyze_csharp_violations returned for the text
    disk,            \* the working tree: text of each .cs file
    cs_files,        \* analyze_repository_standards: the files os.walk kept
    file_index,      \* position of the loop over cs_files
    analysis_metrics,  \* the metrics summed over the files
    analysis_results,  \* the record analyze_repository_standards returns
    sorted_files,    \* show_repository_analysis: file_details as it lists them
    ps_content,      \* find-braces: the text of the PowerShell file
    content_clean,   \* find-braces: the text after the four substitutions
    open_braces,     \* find-braces: the opening braces found
    close_braces,    \* find-braces: the closing braces found
    balanced,        \* find-braces: value returned by find_unbalanced_braces
    last_open,       \* find-braces: the open braces listed under 'Last few open braces'
    last_close,      \* find-braces: the close braces listed under 'Last few close braces'
    git_dir,         \* pre-commit hook: whether '.git' exists
    git_status,      \* pre-commit hook: how the git diff call ended
    staged_files,    \* pre-commit hook: the staged .cs files
    staged_index,    \* pre-commit hook: position of the loop over staged_files
    hook_issues      \* pre-commit hook: the issues list of check_csharp_files

scoreVars == <<issues, quality_score>>
orchVars == <<script, existing, server_content, ps_cmd, python_results, ps_results, all_results,
              test_scripts, report, uncaught, exit_status>>
scanVars == <<file_text, file_metrics, file_issues, csharp_violations>>
repoVars == <<disk, cs_files, file_index, analysis_metrics, analysis_results,
              sorted_files>>
braceVars == <<ps_content, content_clean, open_braces, close_braces, balanced,
               last_open, last_close>>
hookVars == <<git_dir, git_status, staged_files, staged_index, hook_issues>>
textVars == <<scanVars, repoVars, braceVars, hookVars>>
vars == <<pc, scoreVars, orchVars, textVars>>

None == "none"

\* report before a report is generated: the summary of no results
NoReport ==
    [total_tests |-> 0, passed |-> 0, partial |-> 0, failed |-> 0, rate_num |-> 0, rate_den |-> 1]

Min(a, b) == IF a <= b THEN a ELSE b
Max(a, b) == IF a >= b THEN a ELSE b

(***************************************************************************)
(* Bounds of the model.                                                    *)
(***************************************************************************)
MaxCritical == 5
MaxMajor == 4
MaxMinor == 25

(***************************************************************************)
(* calculate_quality_score (tests/code-standards-validator.py 437-452)     *)
(***************************************************************************)
BaseScore == 100
CriticalWeight == 20
MajorWeight == 5
MinorWeight == 1
PenaltyCap == 95
MinScore == 5

\* mutants of calculate_quality_score
ScoreNoFloor(r) ==
    BaseScore - (r.critical * CriticalWeight + r.major * MajorWeight + r.minor * MinorWeight)

ScoreMinorSign(r) ==
    LET total_penalty == r.critical * CriticalWeight + r.major * MajorWeight - r.minor * MinorWeight
        max_penalty == Min(total_penalty, PenaltyCap)
    IN  Max(MinScore, BaseScore - max_penalty)

ScoreLightCritical(r) ==
    LET total_penalty == r.critical * 2 + r.major * MajorWeight + r.minor * MinorWeight
        max_penalty == Min(total_penalty, PenaltyCap)
    IN  Max(MinScore, BaseScore - max_penalty)

ScoreHeavyMinor(r) ==
    LET total_penalty == r.critical * CriticalWeight + r.major * MajorWeight + r.minor * 2
        max_penalty == Min(total_penalty, PenaltyCap)
    IN  Max(MinScore, BaseScore - max_penalty)

calculate_quality_score(r) ==
    LET critical_penalty == r.critical * CriticalWeight
        major_penalty == r.major * MajorWeight
        minor_penalty == r.minor * MinorWeight
        total_penalty == critical_penalty + major_penalty + minor_penalty
        max_penalty == Min(total_penalty, PenaltyCap)
        final_score == Max(MinScore, BaseScore - max_penalty)
    IN  final_score

IssueTriples ==
    [critical : 0..MaxCritical, major : 0..MaxMajor, minor : 0..MaxMinor]

ScoreIdle == issues = None /\ quality_score = None

OrchIdle ==
    /\ script = None /\ existing = {} /\ server_content = {} /\ ps_cmd = None
    /\ python_results = <<>> /\ ps_results = <<>> /\ all_results = <<>>
    /\ test_scripts = <<>> /\ report = NoReport /\ uncaught = None
    /\ exit_status = -1

ScanIdle ==
    file_text = None /\ file_metrics = None /\ file_issues = None /\ csharp_violations = None

RepoIdle ==
    /\ disk = None /\ cs_files = <<>> /\ file_index = 0
    /\ analysis_metrics = None /\ analysis_results = None /\ sorted_files = <<>>

BraceIdle ==
    /\ ps_content = None /\ content_clean = None /\ open_braces = <<>> /\ close_braces = <<>>
    /\ balanced = None /\ last_open = <<>> /\ last_close = <<>>

HookIdle ==
    /\ git_dir = None /\ git_status = None /\ staged_files = <<>> /\ staged_index = 0
    /\ hook_issues = <<>>

TextIdle == ScanIdle /\ RepoIdle /\ BraceIdle /\ HookIdle

ScoreInit ==
    /\ OrchIdle /\ TextIdle
    /\ pc = "score_start"
    /\ issues \in IssueTriples
    /\ quality_score = None

ScoreCall ==
    /\ pc = "score_start"
    /\ quality_score' = calculate_quality_score(issues)
    /\ pc' = "score_done"
    /\ UNCHANGED <<issues, orchVars, textVars>>

ScoreNext == ScoreCall

SpecScore == ScoreInit /\ [][ScoreNext]_vars

\* C1: for every triple of non-negative counts the returned score lies in [5, 100].
C1_ScoreInRange ==
    pc = "score_done" => (quality_score >= 5 /\ quality_score <= 100)

\* the cap is in force: the raw penalty exceeds 95 and the score sits on the floor
C1_Witness ==
    /\ pc = "score_done"
    /\ issues.critical * 20 + issues.major * 5 + issues.minor > 95
    /\ quality_score = 5

\* C2: the score is monotonically non-increasing: every triple that is
\* componentwise at most the scored one has a score at least as high.
C2_ScoreMonotone ==
    pc = "score_done" =>
        \A c \in 0..issues.critical, M \in 0..issues.major, m \in 0..issues.minor :
            calculate_quality_score([critical |-> c, major |-> M, minor |-> m]) >= quality_score

C2_Witness ==
    /\ pc = "score_done"
    /\ issues.critical >= 1 /\ issues.major >= 1 /\ issues.minor >= 1
    /\ quality_score < calculate_quality_score([critical |-> 0, major |-> 0, minor |-> 0])

\* C3: with at least one critical finding the score is at most 80, whatever
\* the major and minor counts.
C3_CriticalCapsAt80 ==
    (pc = "score_done" /\ issues.critical >= 1) => quality_score <= 80

C3_Witness ==
    /\ pc = "score_done"
    /\ issues = [critical |-> 1, major |-> 0, minor |-> 0]
    /\ quality_score = 80

\* C4 as stated: one critical finding scores no higher than minor findings of
\* any volume.
C4_CriticalDominatesMinor ==
    (pc = "score_done" /\ issues.critical = 0 /\ issues.major = 0) =>
        calculate_quality_score([critical |-> 1, major |-> 0, minor |-> 0]) <= quality_score

\* C4 as amended: one critical finding scores no higher than up to 20 minor
\* findings (a critical finding weighs as much as 20 minor ones).
C4_CriticalDominatesUpTo20Minor ==
    (pc = "score_done" /\ issues.critical = 0 /\ issues.major = 0 /\ issues.minor <= 20) =>
        calculate_quality_score([critical |-> 1, major |-> 0, minor |-> 0]) <= quality_score

C4_Witness ==
    /\ pc = "score_done"
    /\ issues = [critical |-> 0, major |-> 0, minor |-> 20]
    /\ quality_score = 80

(***************************************************************************)
(* The three orchestrators: run-all-tests.py, test-bug-fixes.py and        *)
(* test-critical-fixes.py.  A result is [name, status]; what the file      *)
(* system and the external processes answer is chosen where it is read.    *)
(***************************************************************************)
Scripts == {"run-all-tests", "test-bug-fixes", "test-critical-fixes"}

SuccessThreshold == 80
UncaughtExit == 1

\* discover_test_scripts: the PowerShell and Python scripts it looks for
PsScripts ==
    << "Code Standards Validator", "Developer Policy Validator",
       "Performance Benchmark Validator", "File Transfer Validator",
       "UWP Deployment Validator", "Windows Phone Deployment Validator",
       "Shared Code Consistency Validator", "Master Assumption Validator" >>
PyScripts == << "Demo Testing System", "Test Testing System" >>

SeqRange(s) == {s[i] : i \in 1..Len(s)}

RECURSIVE SelectIn(_, _)
\* the elements of sequence s that are in set S, in the order of s
SelectIn(s, S) ==
    IF s = <<>> THEN <<>>
    ELSE (IF Head(s) \in S THEN <<Head(s)>> ELSE <<>>) \o SelectIn(Tail(s), S)

RECURSIVE CountStatus(_, _)
\* len([r for r in results if r["status"] == st])
CountStatus(results, st) ==
    IF results = <<>> THEN 0
    ELSE (IF Head(results).status = st THEN 1 ELSE 0) + CountStatus(Tail(results), st)

Result(name, status) == [name |-> name, status |-> status]

\* run-all-tests.py: the names whose simulated run takes each branch
NamesWithPerformance == {"Performance Benchmark Validator"}
NamesWithPolicy == {"Developer Policy Validator"}
NamesWithDeployment == {"UWP Deployment Validator", "Windows Phone Deployment Validator"}
NamesWithStandards == {"Code Standards Validator"}

\* mutant: a simulated policy run that fails
SimulatePolicyFails(test_name) ==
    Result(test_name, IF test_name \in NamesWithPolicy THEN "FAIL" ELSE "PASS")

simulate_test_execution(test_name) ==
    LET success ==
            IF test_name \in NamesWithPerformance THEN TRUE
            ELSE IF test_name \in NamesWithPolicy THEN TRUE
            ELSE IF test_name \in NamesWithDeployment THEN TRUE
            ELSE IF test_name \in NamesWithStandards THEN TRUE
            ELSE TRUE
    IN  Result(test_name, IF success THEN "PASS" ELSE "FAIL")

\* check_powershell_availability: each probe ends "ok" (exit 0), "nonzero",
\* "not_found" (FileNotFoundError, caught), "launch_error" (another OSError of
\* the launch, such as PermissionError, which no handler catches) or "hangs"
\* (the call has no timeout and the process never exits)
ProbeOutcomes == {"ok", "nonzero", "not_found", "launch_error", "hangs"}

\* how the call of check_powershell_availability ends: the second probe runs
\* only when the first neither returned 'pwsh' nor raised nor hung
ProbeEnds(pwsh, powershell) ==
    IF pwsh = "ok" THEN "returns"
    ELSE IF pwsh = "launch_error" THEN "raises"
    ELSE IF pwsh = "hangs" THEN "blocks"
    ELSE IF powershell = "launch_error" THEN "raises"
    ELSE IF powershell = "hangs" THEN "blocks"
    ELSE "returns"

check_powershell_availability(pwsh, powershell) ==
    IF pwsh = "ok" THEN "pwsh"
    ELSE IF powershell = "ok" THEN "powershell"
    ELSE None

\* a sub-process run by subprocess.run(..., timeout=...): exit 0, a nonzero exit,
\* or an exception (timeout, launch failure) caught by `except Exception`
RunOutcomes == {"exit0", "nonzero", "raised"}

\* run_python_tests: one result per existing script
PythonTestStatus(outcome) == IF outcome = "exit0" THEN "PASS" ELSE "FAIL"

\* mutant: every result that did not pass is counted as failed, a partial
\* one too
SummaryFailedNotPassed(results, with_partial) ==
    [ total_tests |-> Len(results),
      passed |-> CountStatus(results, "PASS"),
      partial |-> IF with_partial THEN CountStatus(results, "PARTIAL") ELSE 0,
      failed |-> Len(results) - CountStatus(results, "PASS"),
      rate_num |-> IF Len(results) > 0 THEN CountStatus(results, "PASS") * 100 ELSE 0,
      rate_den |-> IF Len(results) > 0 THEN Len(results) ELSE 1 ]

\* generate_*_report: report['summary'].  success_rate is kept as the exact
\* fraction rate_num / rate_den (0 / 1 when there are no tests).
Summary(results, with_partial) ==
    LET total_tests == Len(results)
        passed_tests == CountStatus(results, "PASS")
    IN  [ total_tests |-> total_tests,
          passed |-> passed_tests,
          partial |-> IF with_partial THEN CountStatus(results, "PARTIAL") ELSE 0,
          failed |-> IF with_partial THEN CountStatus(results, "FAIL")
                     ELSE total_tests - passed_tests,
          rate_num |-> IF total_tests > 0 THEN passed_tests * 100 ELSE 0,
          rate_den |-> IF total_tests > 0 THEN total_tests ELSE 1 ]

\* report['summary']['success_rate'] >= 80
RateAtLeast(summary, pct) == summary.rate_num >= pct * summary.rate_den

\* sys.exit(0 if success else 1)
ExitCode(success) == IF success THEN 0 ELSE 1

\* test_async_exception_fix (118-164): async_checks, the five texts that
\* earn a point when they occur in the file
AsyncChecks ==
    {"private void OnRequestReceived", "private async Task HandleRequestSafelyAsync",
     "private async Task HandleRequestAsync", "HandleRequestSafelyAsync(e)",
     "Unhandled exception in HTTP request handler"}

\* the text that earns a point when it does not occur
AsyncVoid == "async void OnRequestReceived"

\* what Shared/Http/LocalSendHttpServer.cs may contain of the checked texts
ServerContents ==
    {AsyncChecks \cup {AsyncVoid}, AsyncChecks,
     AsyncChecks \ {"HandleRequestSafelyAsync(e)"},
     (AsyncChecks \ {"HandleRequestSafelyAsync(e)"}) \cup {AsyncVoid}, {}}

OrchInit ==
    /\ ScoreIdle /\ TextIdle
    /\ script \in Scripts
    /\ pc = (CASE script = "run-all-tests" -> "ra_discover"
               [] script = "test-bug-fixes" -> "bf_powershell"
               [] script = "test-critical-fixes" -> "cf_memory")
    /\ existing \in (IF script = "run-all-tests"
                     THEN SUBSET (SeqRange(PsScripts) \cup SeqRange(PyScripts))
                     ELSE {{}})
    /\ server_content \in (IF script = "test-critical-fixes" THEN ServerContents ELSE {{}})
    /\ ps_cmd = None
    /\ python_results = <<>> /\ ps_results = <<>> /\ all_results = <<>>
    /\ test_scripts = <<>> /\ report = NoReport /\ uncaught = None
    /\ exit_status = -1

(* ---------------------------- run-all-tests.py ------------------------- *)

\* discover_test_scripts (94-135)
RA_Discover ==
    /\ pc = "ra_discover"
    /\ test_scripts' =
          [i \in 1..Len(SelectIn(PsScripts, existing)) |->
              [name |-> SelectIn(PsScripts, existing)[i], type |-> "powershell"]]
          \o [i \in 1..Len(SelectIn(PyScripts, existing)) |->
              [name |-> SelectIn(PyScripts, existing)[i], type |-> "python"]]
    /\ pc' = "ra_probe"
    /\ UNCHANGED <<scoreVars, textVars, script, existing, server_content,
                   ps_cmd, python_results, ps_results, all_results, report, uncaught, exit_status>>

\* main 274-279: ps_cmd = check_powershell_availability()
RA_Probe ==
    /\ pc = "ra_probe"
    /\ \E pwsh \in ProbeOutcomes, powershell \in ProbeOutcomes :
          CASE ProbeEnds(pwsh, powershell) = "returns" ->
                  /\ ps_cmd' = check_powershell_availability(pwsh, powershell)
                  /\ pc' = "ra_python"
                  /\ UNCHANGED <<uncaught, exit_status>>
            [] ProbeEnds(pwsh, powershell) = "raises" ->
                  /\ uncaught' = "OSError"
                  /\ pc' = "exited"
                  /\ exit_status' = UncaughtExit
                  /\ UNCHANGED ps_cmd
            [] ProbeEnds(pwsh, powershell) = "blocks" ->
                  /\ pc' = "blocked"
                  /\ UNCHANGED <<ps_cmd, uncaught, exit_status>>
    /\ UNCHANGED <<scoreVars, textVars, script, existing, server_content,
                   python_results, ps_results, all_results, test_scripts, report>>

\* run_python_tests (137-193)
RA_Python ==
    /\ pc = "ra_python"
    /\ \E demo \in RunOutcomes, validator \in RunOutcomes :
          python_results' =
              (IF "Demo Testing System" \in existing
               THEN <<Result("Demo Testing System", PythonTestStatus(demo))>> ELSE <<>>)
              \o (IF "Test Testing System" \in existing
                  THEN <<Result("Test System Validator", PythonTestStatus(validator))>>
                  ELSE <<>>)
    /\ pc' = "ra_simulate"
    /\ UNCHANGED <<scoreVars, textVars, script, existing, server_content,
                   ps_cmd, ps_results, all_results,
                   test_scripts, report, uncaught, exit_status>>

RECURSIVE SimulateAll(_)
SimulateAll(scripts) ==
    IF scripts = <<>> THEN <<>>
    ELSE (IF Head(scripts).type = "powershell"
          THEN <<simulate_test_execution(Head(scripts).name)>> ELSE <<>>)
         \o SimulateAll(Tail(scripts))

\* simulate_powershell_tests (195-212), called whatever ps_cmd is
RA_Simulate ==
    /\ pc = "ra_simulate"
    /\ ps_results' = SimulateAll(test_scripts)
    /\ pc' = "ra_report"
    /\ UNCHANGED <<scoreVars, textVars, script, existing, server_content,
                   ps_cmd, python_results, all_results,
                   test_scripts, report, uncaught, exit_status>>

\* generate_comprehensive_report (214-254)
RA_Report ==
    /\ pc = "ra_report"
    /\ report' = Summary(python_results \o ps_results, FALSE)
    /\ pc' = "ra_summary"
    /\ UNCHANGED <<scoreVars, textVars, script, existing, server_content,
                   ps_cmd, python_results, ps_results, all_results, test_scripts, uncaught, exit_status>>

\* mutant: the threshold test inverted
RA_ExitInverted == ExitCode(~RateAtLeast(report, SuccessThreshold))

\* main 290-311: return success_rate >= 80; sys.exit(0 if success else 1)
RA_Exit == ExitCode(RateAtLeast(report, SuccessThreshold))

RA_Summary ==
    /\ pc = "ra_summary"
    /\ pc' = "exited"
    /\ exit_status' = RA_Exit
    /\ UNCHANGED <<scoreVars, textVars, script, existing, server_content,
                   ps_cmd, python_results, ps_results, all_results, test_scripts, report, uncaught>>

(* ---------------------------- test-bug-fixes.py ------------------------ *)

\* what a run of find-braces.py shows: "Difference: 0" in its output, another
\* difference, or an exception (timeout, launch failure)
BraceRunOutcomes == {"difference0", "other", "raised"}

BraceRunStatus(outcome) ==
    CASE outcome = "difference0" -> "PASS"
      [] outcome = "other" -> "PARTIAL"
      [] outcome = "raised" -> "FAIL"

\* a check that reads a source file and looks for marker texts: all found,
\* some missing, or the read raised
MarkerOutcomes == {"found", "missing", "raised"}

MarkerStatus(outcome) == IF outcome = "found" THEN "PASS" ELSE "FAIL"

\* test_code_compilation samples cs_files[:10]; run_integration_tests cs_files[:20]
BugFixSample == 10
CriticalFixSample == 20

SyntaxStatus(syntax_errors) == IF syntax_errors = 0 THEN "PASS" ELSE "PARTIAL"

\* test_powershell_syntax_fixes (37-74)
BF_PowerShell ==
    /\ pc = "bf_powershell"
    /\ \E master \in BraceRunOutcomes, policy \in BraceRunOutcomes :
          all_results' = all_results \o
              << Result("MasterAssumptionValidator Syntax", BraceRunStatus(master)),
                 Result("DeveloperPolicyValidator Syntax", BraceRunStatus(policy)) >>
    /\ pc' = "bf_csharp"
    /\ UNCHANGED <<scoreVars, textVars, script, existing, server_content,
                   ps_cmd, python_results, ps_results, test_scripts, report, uncaught, exit_status>>

\* test_csharp_code_fixes (76-162)
BF_CSharp ==
    /\ pc = "bf_csharp"
    /\ \E o1 \in MarkerOutcomes, o2 \in MarkerOutcomes, o3 \in MarkerOutcomes,
          o4 \in MarkerOutcomes, o5 \in MarkerOutcomes :
          all_results' = all_results \o
              << Result("MemoryManager Cancellation", MarkerStatus(o1)),
                 Result("HTTP Server Async Void", MarkerStatus(o2)),
                 Result("LocalSendProtocol Deadlock", MarkerStatus(o3)),
                 Result("HTTP Server Null Checks", MarkerStatus(o4)),
                 Result("Security Analysis Error Handling", MarkerStatus(o5)) >>
    /\ pc' = "bf_compile"
    /\ UNCHANGED <<scoreVars, textVars, script, existing, server_content,
                   ps_cmd, python_results, ps_results, test_scripts, report, uncaught, exit_status>>

\* test_code_compilation (164-206)
BF_Compile ==
    /\ pc = "bf_compile"
    /\ \E syntax_errors \in 0..BugFixSample :
          all_results' = all_results \o
              << Result("C# Syntax Check", SyntaxStatus(syntax_errors)) >>
    /\ pc' = "bf_validation"
    /\ UNCHANGED <<scoreVars, textVars, script, existing, server_content,
                   ps_cmd, python_results, ps_results, test_scripts, report, uncaught, exit_status>>

RunnerStatus(outcome) ==
    CASE outcome = "exit0" -> "PASS"
      [] outcome = "nonzero" -> "PARTIAL"
      [] outcome = "raised" -> "FAIL"

\* run_validation_tests (208-246)
BF_Validation ==
    /\ pc = "bf_validation"
    /\ \E demo \in RunOutcomes, runner \in RunOutcomes :
          all_results' = all_results \o
              << Result("Demo Testing System", PythonTestStatus(demo)),
                 Result("Comprehensive Test Runner", RunnerStatus(runner)) >>
    /\ pc' = "bf_report"
    /\ UNCHANGED <<scoreVars, textVars, script, existing, server_content,
                   ps_cmd, python_results, ps_results, test_scripts, report, uncaught, exit_status>>

\* generate_bug_fix_report (248-289)
BF_Report ==
    /\ pc = "bf_report"
    /\ report' = Summary(all_results, TRUE)
    /\ pc' = "bf_summary"
    /\ UNCHANGED <<scoreVars, textVars, script, existing, server_content,
                   ps_cmd, python_results, ps_results, all_results, test_scripts, uncaught, exit_status>>

\* main 323-346: the summary is printed, then line 337 reads report_file, a
\* name local to generate_bug_fix_report: NameError.  The return on line 342
\* is never reached and the interpreter exits with status 1.
BF_Summary ==
    /\ pc = "bf_summary"
    /\ uncaught' = "NameError"
    /\ pc' = "exited"
    /\ exit_status' = UncaughtExit
    /\ UNCHANGED <<scoreVars, textVars, script, existing, server_content,
                   ps_cmd, python_results, ps_results, all_results, test_scripts, report>>

(* -------------------------- test-critical-fixes.py --------------------- *)

\* a check that counts how many of its marker texts the file holds: PASS from
\* pass_from markers on, PARTIAL from partial_from on, else below; a read
\* that raises is FAIL
CountStatusOf(found, pass_from, partial_from, below) ==
    IF found >= pass_from THEN "PASS"
    ELSE IF found >= partial_from THEN "PARTIAL"
    ELSE below

\* test_memory_leak_fix (44-116)
CF_Memory ==
    /\ pc = "cf_memory"
    /\ \E r1 \in BOOLEAN, passed_checks \in 0..6, r2 \in BOOLEAN, disposal_passed \in 0..4 :
          all_results' = all_results \o
              << Result("Memory Manager Cancellation Implementation",
                        IF r1 THEN "FAIL" ELSE CountStatusOf(passed_checks, 6, 0, "PARTIAL")),
                 Result("Memory Manager Disposal Pattern",
                        IF r2 THEN "FAIL" ELSE CountStatusOf(disposal_passed, 3, 0, "PARTIAL")) >>
    /\ pc' = "cf_async"
    /\ UNCHANGED <<scoreVars, textVars, script, existing, server_content,
                   ps_cmd, python_results, ps_results, test_scripts, report, uncaught, exit_status>>

\* if async_passed >= 5 (154)
AsyncPassFrom == 5

\* test_async_exception_fix (118-164): five marker texts, plus one point when
\* "async void OnRequestReceived" is absent
AsyncStatus(found, async_void_present) ==
    LET async_passed == found + (IF async_void_present THEN 0 ELSE 1)
    IN  CountStatusOf(async_passed, AsyncPassFrom, 0, "PARTIAL")

CF_Async ==
    /\ pc = "cf_async"
    /\ \E raised \in BOOLEAN :
          all_results' = all_results \o
              << Result("Async Void Elimination",
                        IF raised THEN "FAIL"
                        ELSE AsyncStatus(Cardinality(server_content \cap AsyncChecks),
                                         AsyncVoid \in server_content)) >>
    /\ pc' = "cf_deadlock"
    /\ UNCHANGED <<scoreVars, textVars, script, existing, server_content,
                   ps_cmd, python_results, ps_results, test_scripts, report, uncaught, exit_status>>

\* test_deadlock_fix (166-219)
CF_Deadlock ==
    /\ pc = "cf_deadlock"
    /\ \E o1 \in MarkerOutcomes, r2 \in BOOLEAN, deadlock_passed \in 0..2 :
          all_results' = all_results \o
              << Result("LocalSendProtocol Deadlock Fix", MarkerStatus(o1)),
                 Result("HTTP Server Deadlock Fix",
                        IF r2 THEN "FAIL" ELSE CountStatusOf(deadlock_passed, 1, 1, "FAIL")) >>
    /\ pc' = "cf_null"
    /\ UNCHANGED <<scoreVars, textVars, script, existing, server_content,
                   ps_cmd, python_results, ps_results, test_scripts, report, uncaught, exit_status>>

\* test_null_reference_fix (221-265)
CF_Null ==
    /\ pc = "cf_null"
    /\ \E raised \in BOOLEAN, null_passed \in 0..8 :
          all_results' = all_results \o
              << Result("Null Reference Prevention",
                        IF raised THEN "FAIL" ELSE CountStatusOf(null_passed, 6, 4, "FAIL")) >>
    /\ pc' = "cf_security"
    /\ UNCHANGED <<scoreVars, textVars, script, existing, server_content,
                   ps_cmd, python_results, ps_results, test_scripts, report, uncaught, exit_status>>

\* test_security_analysis_fix (267-309)
CF_Security ==
    /\ pc = "cf_security"
    /\ \E raised \in BOOLEAN, security_passed \in 0..6 :
          all_results' = all_results \o
              << Result("Security Analysis Error Handling",
                        IF raised THEN "FAIL" ELSE CountStatusOf(security_passed, 4, 2, "FAIL")) >>
    /\ pc' = "cf_integration"
    /\ UNCHANGED <<scoreVars, textVars, script, existing, server_content,
                   ps_cmd, python_results, ps_results, test_scripts, report, uncaught, exit_status>>

\* run_integration_tests (311-370)
CF_Integration ==
    /\ pc = "cf_integration"
    /\ \E syntax_errors \in 0..CriticalFixSample, demo \in RunOutcomes :
          all_results' = all_results \o
              << Result("Code Compilation Check", SyntaxStatus(syntax_errors)),
                 Result("Validation System Integration", PythonTestStatus(demo)) >>
    /\ pc' = "cf_report"
    /\ UNCHANGED <<scoreVars, textVars, script, existing, server_content,
                   ps_cmd, python_results, ps_results, test_scripts, report, uncaught, exit_status>>

\* CriticalFixTester.generate_comprehensive_report (385-423)
CF_Report ==
    /\ pc = "cf_report"
    /\ report' = Summary(all_results, TRUE)
    /\ pc' = "cf_summary"
    /\ UNCHANGED <<scoreVars, textVars, script, existing, server_content,
                   ps_cmd, python_results, ps_results, all_results, test_scripts, uncaught, exit_status>>

\* main 443-466: return success_rate >= 80; sys.exit(0 if success else 1)
CF_Summary ==
    /\ pc = "cf_summary"
    /\ pc' = "exited"
    /\ exit_status' = ExitCode(RateAtLeast(report, SuccessThreshold))
    /\ UNCHANGED <<scoreVars, textVars, script, existing, server_content,
                   ps_cmd, python_results, ps_results, all_results, test_scripts, report, uncaught>>

OrchNext ==
    \/ RA_Discover \/ RA_Probe \/ RA_Python \/ RA_Simulate \/ RA_Report \/ RA_Summary
    \/ BF_PowerShell \/ BF_CSharp \/ BF_Compile \/ BF_Validation \/ BF_Report \/ BF_Summary
    \/ CF_Memory \/ CF_Async \/ CF_Deadlock \/ CF_Null \/ CF_Security \/ CF_Integration
    \/ CF_Report \/ CF_Summary

SpecOrch == OrchInit /\ [][OrchNext]_vars

\* the individual test outcomes of the run, whichever orchestrator it is
Outcomes == python_results \o ps_results \o all_results

\* passed_tests / total_tests * 100 >= 80 over the outcomes of the run
OutcomeRateAtLeast80 ==
    Len(Outcomes) > 0 /\ CountStatus(Outcomes, "PASS") * 100 >= 80 * Len(Outcomes)

\* C5: for each orchestrator and every combination of test outcomes the exit
\* status is 0 iff the aggregate success rate is at least 80, nonzero otherwise.
C5_ExitZeroIffRate80 ==
    pc = "exited" => (exit_status = 0 <=> OutcomeRateAtLeast80)

(***************************************************************************)
(* Text.  A text is a sequence of one-character strings; positions are     *)
(* 1-based.  A matcher returns the position after its match, 0 for no      *)
(* match.                                                                  *)
(***************************************************************************)
LowerLetters == <<"a","b","c","d","e","f","g","h","i","j","k","l","m","n","o","p","q","r","s","t","u","v","w","x","y","z">>
UpperLetters == <<"A","B","C","D","E","F","G","H","I","J","K","L","M","N","O","P","Q","R","S","T","U","V","W","X","Y","Z">>
DigitChars == {"0","1","2","3","4","5","6","7","8","9"}
LowerSet == SeqRange(LowerLetters)
UpperSet == SeqRange(UpperLetters)
\* \w and \s of Python's re on ASCII text
WordChars == LowerSet \cup UpperSet \cup DigitChars \cup {"_"}
SpaceChars == {" ", "\t", "\n", "\r"}

\* the character at position i, "" outside the text
At(t, i) == IF i >= 1 /\ i <= Len(t) THEN t[i] ELSE ""

\* str.lower() of one character
LowerChar(c) ==
    IF c \in UpperSet
    THEN LowerLetters[CHOOSE k \in 1..26 : UpperLetters[k] = c]
    ELSE c

ToLower(t) == [i \in 1..Len(t) |-> LowerChar(t[i])]

\* the literal lit at position i
MatchLit(t, i, lit) ==
    IF i + Len(lit) - 1 <= Len(t) /\ \A k \in 1..Len(lit) : t[i + k - 1] = lit[k]
    THEN i + Len(lit)
    ELSE 0

\* the least element of a non-empty set of positions
First(P) == CHOOSE x \in P : \A y \in P : x <= y

\* greedy X*: the first position from i on whose character is not in S
\* (past the end of the text when there is none)
SkipWhile(t, i, S) ==
    LET stop == {j \in i..Len(t) : t[j] \notin S}
    IN  IF stop = {} THEN Max(i, Len(t) + 1) ELSE First(stop)

\* greedy [^...]*: the first position from i on whose character is in S
\* (past the end of the text when there is none)
SkipUntil(t, i, S) ==
    LET stop == {j \in i..Len(t) : t[j] \in S}
    IN  IF stop = {} THEN Max(i, Len(t) + 1) ELSE First(stop)

\* occurrences of character c in t[a..b]
CountChar(t, a, b, c) == Cardinality({k \in a..b : t[k] = c})

Rep(c, n) == [i \in 1..n |-> c]

RECURSIVE Join(_, _)
\* sep.join(parts)
Join(parts, sep) ==
    IF parts = <<>> THEN <<>>
    ELSE IF Len(parts) = 1 THEN parts[1]
    ELSE parts[1] \o sep \o Join(Tail(parts), sep)

L_public == <<"p","u","b","l","i","c">>
L_class == <<"c","l","a","s","s">>
L_struct == <<"s","t","r","u","c","t">>
L_interface == <<"i","n","t","e","r","f","a","c","e">>
L_summary == <<"/","/","/"," ","<","s","u","m","m","a","r","y",">">>
L_slashes == <<"/","/","/">>
L_summary_tag == <<"<","s","u","m","m","a","r","y",">">>
L_using == <<"u","s","i","n","g"," ">>
L_using_paren == <<"u","s","i","n","g"," ","(">>
L_password == <<"p","a","s","s","w","o","r","d">>
L_secret == <<"s","e","c","r","e","t">>
L_key == <<"k","e","y">>
L_token == <<"t","o","k","e","n">>
L_api_key == <<"a","p","i","_","k","e","y">>
L_apikey == <<"a","p","i","k","e","y">>
L_auth_token == <<"a","u","t","h","_","t","o","k","e","n">>
L_private == <<"p","r","i","v","a","t","e">>
L_protected == <<"p","r","o","t","e","c","t","e","d">>
L_internal == <<"i","n","t","e","r","n","a","l">>
L_static == <<"s","t","a","t","i","c">>
L_virtual == <<"v","i","r","t","u","a","l">>
L_override == <<"o","v","e","r","r","i","d","e">>
L_async == <<"a","s","y","n","c">>

(***************************************************************************)
(* re.findall: ends[i] is the position after the match that starts at i    *)
(* (0: no match at i).  The scan is left to right and a match is followed  *)
(* by the search from its end, so matches never overlap.                   *)
(***************************************************************************)
RECURSIVE MatchStarts(_, _)
MatchStarts(ends, i) ==
    LET hits == {j \in i..Len(ends) : ends[j] > j}
    IN  IF hits = {} THEN <<>>
        ELSE <<First(hits)>> \o MatchStarts(ends, ends[First(hits)])

\* str.count(lit): non-overlapping occurrences of a literal
CountLit(t, lit) ==
    Len(MatchStarts([i \in 1..Len(t) |-> MatchLit(t, i, lit)], 1))

(***************************************************************************)
(* The patterns of analyze_file_standards                                  *)
(* (tests/code-standards-validator.py 46-127)                              *)
(***************************************************************************)
LineLimit == 120
UsingLimit == 15
MagicLimit == 5
MethodLineLimit == 50

\* r'public\s+\w+\s+([a-z]\w*)\s*{' at position i: the end of the match and
\* the position where the captured name starts and ends.  \w and \s are
\* disjoint, so each greedy run ends where the pattern needs it to end.
CamelPropAt(t, i) ==
    LET a == MatchLit(t, i, L_public)
        b == SkipWhile(t, a, SpaceChars)
        c == SkipWhile(t, b, WordChars)
        d == SkipWhile(t, c, SpaceChars)
        e == SkipWhile(t, d, WordChars)
        f == SkipWhile(t, e, SpaceChars)
    IN  IF a > 0 /\ b > a /\ c > b /\ d > c /\ At(t, d) \in LowerSet /\ At(t, f) = "{"
        THEN [end |-> f + 1, from |-> d, to |-> e - 1]
        ELSE [end |-> 0, from |-> 0, to |-> 0]

\* re.findall(...): the captured names, in order
CamelProps(t) ==
    LET starts == MatchStarts([i \in 1..Len(t) |-> CamelPropAt(t, i).end], 1)
    IN  [k \in 1..Len(starts) |->
            SubSeq(t, CamelPropAt(t, starts[k]).from, CamelPropAt(t, starts[k]).to)]

RECURSIVE WordsThenOpen(_, _, _)
\* (?:\w+\s+)+\w+\s*[({] from the word at j, n words already taken: every
\* word but the last is followed by white space, the last by \s* and an
\* opening parenthesis or brace
WordsThenOpen(t, j, n) ==
    LET w == SkipWhile(t, j, WordChars)
        sp == SkipWhile(t, w, SpaceChars)
    IN  IF w = j THEN 0
        ELSE IF At(t, sp) \in {"(", "{"} THEN (IF n >= 1 THEN sp + 1 ELSE 0)
        ELSE IF sp > w THEN WordsThenOpen(t, sp, n + 1)
        ELSE 0

\* r'public\s+(?:static\s+)?(?:virtual\s+)?(?:override\s+)?(?:async\s+)?
\*   (?:\w+\s+)+\w+\s*[({]'.  Each optional modifier is itself a word followed
\* by white space, so what it can match the (?:\w+\s+)+ loop matches too.
\* mutant: only type declarations count as public members
PublicTypeAt(t, i) ==
    LET a == MatchLit(t, i, L_public)
        b == SkipWhile(t, a, SpaceChars)
    IN  IF a > 0 /\ b > a
        THEN Max(MatchLit(t, b, L_class),
                 Max(MatchLit(t, b, L_struct), MatchLit(t, b, L_interface)))
        ELSE 0

PublicMemberAt(t, i) ==
    LET a == MatchLit(t, i, L_public)
        b == SkipWhile(t, a, SpaceChars)
    IN  IF a > 0 /\ b > a THEN WordsThenOpen(t, b, 0) ELSE 0

PublicMembers(t) ==
    Len(MatchStarts([i \in 1..Len(t) |-> PublicMemberAt(t, i)], 1))

\* the secret patterns, over content.lower():
\*   r'(password|secret|key|token)\s*=\s*["\'][^"\']+["\']'
\*   r'(api_key|apikey|auth_token)\s*=\s*["\'][^"\']+["\']'
QuoteChars == {"\"", "'"}

\* \s*=\s*["'][^"']+["'] from position a (the end of the name)
AssignedLiteralEnd(t, a) ==
    LET b == SkipWhile(t, a, SpaceChars)
        c == SkipWhile(t, b + 1, SpaceChars)
        d == SkipUntil(t, c + 1, QuoteChars)
    IN  IF At(t, b) = "=" /\ At(t, c) \in QuoteChars
           /\ d > c + 1 /\ At(t, d) \in QuoteChars
        THEN d + 1
        ELSE 0

\* (name1|name2|...) followed by the assignment: the first alternative with
\* which the whole pattern matches
AssignedLiteralAt(t, i, names) ==
    LET Ok(k) == MatchLit(t, i, names[k]) > 0
                 /\ AssignedLiteralEnd(t, MatchLit(t, i, names[k])) > 0
    IN  IF \E k \in 1..Len(names) : Ok(k)
        THEN AssignedLiteralEnd(t, MatchLit(t, i, names[
                 CHOOSE k \in 1..Len(names) : Ok(k) /\ \A h \in 1..(k - 1) : ~Ok(h)]))
        ELSE 0

SecretNames1 == <<L_password, L_secret, L_key, L_token>>
SecretNames2 == <<L_api_key, L_apikey, L_auth_token>>

\* re.findall(pattern, content.lower())
SecretMatches(t, names) ==
    LET lowered == ToLower(t)
    IN  Len(MatchStarts([i \in 1..Len(t) |-> AssignedLiteralAt(lowered, i, names)], 1))

\* r'\b(?<![\w.])\d{2,}\b(?![\w.])': a maximal run of at least min_digits
\* digits with no word character and no '.' on either side
NotNumberPart(c) == c \notin (WordChars \cup {"."})

MagicNumberAt(t, i, min_digits) ==
    LET e == SkipWhile(t, i, DigitChars)
    IN  IF At(t, i) \in DigitChars /\ NotNumberPart(At(t, i - 1))
           /\ e - i >= min_digits /\ NotNumberPart(At(t, e))
        THEN e
        ELSE 0

\* ['100', '200', '404', '500', '1000', '2000']
AcceptableNumbers ==
    { <<"1","0","0">>, <<"2","0","0">>, <<"4","0","4">>, <<"5","0","0">>, <<"1","0","0","0">>, <<"2","0","0","0">> }

\* filtered_magic: the matches that are not acceptable numbers
FilteredMagic(t, min_digits) ==
    LET ends == [i \in 1..Len(t) |-> MagicNumberAt(t, i, min_digits)]
        starts == MatchStarts(ends, 1)
    IN  SelectSeq([k \in 1..Len(starts) |-> SubSeq(t, starts[k], ends[starts[k]] - 1)],
                  LAMBDA n : n \notin AcceptableNumbers)

\* the method pattern:
\*   r'(?:public|private|protected|internal)\s+(?:static\s+)?(?:virtual\s+)?
\*     (?:override\s+)?(?:async\s+)?\w+\s+\w+\s*\([^)]*\)\s*
\*     {([^{}]*(?:{[^{}]*}[^{}]*)*)}'
AccessWords == <<L_public, L_private, L_protected, L_internal>>
ModifierWords == <<L_static, L_virtual, L_override, L_async>>

ModifierIndex(word) ==
    IF \E k \in 1..Len(ModifierWords) : ModifierWords[k] = word
    THEN CHOOSE k \in 1..Len(ModifierWords) : ModifierWords[k] = word
    ELSE 0

\* (?:public|private|protected|internal): no two of them start alike
FirstAccess(t, i) ==
    IF \E k \in 1..Len(AccessWords) : MatchLit(t, i, AccessWords[k]) > 0
    THEN MatchLit(t, i, AccessWords[CHOOSE k \in 1..Len(AccessWords) :
                                       MatchLit(t, i, AccessWords[k]) > 0])
    ELSE 0

RECURSIVE HeaderWords(_, _)
\* the words from j up to the opening parenthesis: each word is followed by
\* white space, the last one by \s*\( ; <<>> when the text is not of that form.
\* The result ends with the position of the parenthesis.
HeaderWords(t, j) ==
    LET w == SkipWhile(t, j, WordChars)
        sp == SkipWhile(t, w, SpaceChars)
        rest == HeaderWords(t, sp)
    IN  IF w = j THEN <<>>
        ELSE IF At(t, sp) = "(" THEN <<SubSeq(t, j, w - 1), sp>>
        ELSE IF sp > w /\ rest # <<>> THEN <<SubSeq(t, j, w - 1)>> \o rest
        ELSE <<>>

\* the words before the last two are optional modifiers, each at most once
\* and in the order static, virtual, override, async
ModifiersInOrder(words, n) ==
    /\ \A k \in 1..n : ModifierIndex(words[k]) > 0
    /\ \A k \in 1..(n - 1) : ModifierIndex(words[k]) < ModifierIndex(words[k + 1])

RECURSIVE BodyClose(_, _, _)
\* [^{}]*(?:{[^{}]*}[^{}]*)*} from j: the position of the brace that closes
\* the body, braces nested one level deep allowed; 0 when there is none
BodyClose(t, j, depth) ==
    LET b == SkipUntil(t, j, {"{", "}"})
    IN  IF b > Len(t) THEN 0
        ELSE IF t[b] = "}" THEN (IF depth = 0 THEN b ELSE BodyClose(t, b + 1, 0))
        ELSE IF depth = 0 THEN BodyClose(t, b + 1, 1)
        ELSE 0

MethodBlockAt(t, i) ==
    LET a == FirstAccess(t, i)
        b == SkipWhile(t, a, SpaceChars)
        hw == HeaderWords(t, b)
        open == hw[Len(hw)]
        c == SkipUntil(t, open + 1, {")"})
        d == SkipWhile(t, c + 1, SpaceChars)
        close == BodyClose(t, d + 1, 0)
    IN  IF a > 0 /\ b > a /\ Len(hw) >= 3 /\ ModifiersInOrder(hw, Len(hw) - 3)
           /\ At(t, c) = ")" /\ At(t, d) = "{" /\ close > 0
        THEN [end |-> close + 1, from |-> d + 1, to |-> close - 1]
        ELSE [end |-> 0, from |-> 0, to |-> 0]

\* len(block.split('\n')) of each captured body
MethodBlockLines(t) ==
    LET starts == MatchStarts([i \in 1..Len(t) |-> MethodBlockAt(t, i).end], 1)
    IN  [k \in 1..Len(starts) |->
            CountChar(t, MethodBlockAt(t, starts[k]).from,
                         MethodBlockAt(t, starts[k]).to, "\n") + 1]

\* the positions of the newlines of t, in order
NewlinePositions(t) == SelectSeq([j \in 1..Len(t) |-> j], LAMBDA j : t[j] = "\n")

\* where line k starts, nl being the positions of the newlines
LineStart(nl, k) == IF k = 1 THEN 1 ELSE nl[k - 1] + 1

SplitAt(t, nl) ==
    [k \in 1..(Len(nl) + 1) |->
        SubSeq(t, LineStart(nl, k), IF k <= Len(nl) THEN nl[k] - 1 ELSE Len(t))]

\* content.split('\n'): the pieces between the newlines
SplitLines(t) == SplitAt(t, NewlinePositions(t))

ReadAt(t, nl) ==
    [k \in 1..(IF Len(t) > 0 /\ t[Len(t)] # "\n" THEN Len(nl) + 1 ELSE Len(nl)) |->
        SubSeq(t, LineStart(nl, k), IF k <= Len(nl) THEN nl[k] ELSE Len(t))]

\* f.readlines(): each line keeps its newline, and a text that ends with a
\* newline has no empty last line
ReadLines(t) == ReadAt(t, NewlinePositions(t))

\* line.strip()
Strip(line) ==
    LET kept == {j \in 1..Len(line) : line[j] \notin SpaceChars}
    IN  IF kept = {} THEN <<>>
        ELSE SubSeq(line, First(kept), CHOOSE x \in kept : \A y \in kept : y <= x)

\* mutant: only lines of more than 150 characters are long
LongLinesOver150(lines) ==
    SelectSeq(lines, LAMBDA line : Len(Strip(line)) > LineLimit + 30)

\* [line for line in lines if len(line.strip()) > 120]
LongLines(lines) == SelectSeq(lines, LAMBDA line : Len(Strip(line)) > LineLimit)

\* the lines that start with 'using ' and not with 'using ('
UsingStatements(lines) ==
    SelectSeq(lines, LAMBDA line :
        /\ MatchLit(Strip(line), 1, L_using) > 0
        /\ MatchLit(Strip(line), 1, L_using_paren) = 0)

Violation(rule, count, total) == [rule |-> rule, count |-> count, of |-> total]

\* metrics as analyze_file_standards creates it (48-61)
\* mutant: the record of the call before is taken up again, with its issues
\* and its violations
NewMetricsKept(lines) ==
    [ long_lines |-> 0, missing_docs |-> 0, camel_case_props |-> 0,
      unused_usings |-> 0, hardcoded_strings |-> 0, complex_methods |-> 0,
      magic_numbers |-> 0, total_loc |-> Len(lines), documented_members |-> 0,
      total_public_members |-> 0,
      issues |-> IF pc = "scanned" THEN file_metrics.issues ELSE 0,
      violations |-> IF pc = "scanned" THEN file_metrics.violations ELSE <<>> ]

NewMetrics(lines) ==
    [ long_lines |-> 0, missing_docs |-> 0, camel_case_props |-> 0,
      unused_usings |-> 0, hardcoded_strings |-> 0, complex_methods |-> 0,
      magic_numbers |-> 0, total_loc |-> Len(lines), documented_members |-> 0,
      total_public_members |-> 0, issues |-> 0, violations |-> <<>> ]

\* long lines (63-68)
RuleLongLines(m, lines) ==
    LET long_line_count == Len(LongLines(lines))
    IN  IF long_line_count > 0
        THEN [m EXCEPT !.long_lines = 1, !.issues = @ + 1,
                       !.violations = Append(@, Violation("Long lines", long_line_count, 0))]
        ELSE m

\* XML documentation coverage (70-80)
RuleDocumentation(m, content) ==
    LET public_members == PublicMembers(content)
        xml_docs == CountLit(content, L_summary)
        counted == [m EXCEPT !.total_public_members = public_members,
                             !.documented_members = xml_docs]
    IN  IF public_members > xml_docs /\ public_members > 0
        THEN [counted EXCEPT !.missing_docs = 1, !.issues = @ + 1,
                  !.violations = Append(@, Violation("Missing documentation",
                                          public_members - xml_docs, public_members))]
        ELSE counted

\* mutant: issues counts the camelCase matches, not the rule
NamingCountsMatches(m, content) ==
    LET camel_props == CamelProps(content)
    IN  IF Len(camel_props) > 0
        THEN [m EXCEPT !.camel_case_props = 1, !.issues = @ + Len(camel_props),
                       !.violations = Append(@, Violation("Naming convention",
                                                          Len(camel_props), 0))]
        ELSE m

\* camelCase properties (82-87)
RuleNaming(m, content) ==
    LET camel_props == CamelProps(content)
    IN  IF Len(camel_props) > 0
        THEN [m EXCEPT !.camel_case_props = 1, !.issues = @ + 1,
                       !.violations = Append(@, Violation("Naming convention",
                                                          Len(camel_props), 0))]
        ELSE m

\* using statements (89-94)
RuleUsings(m, lines) ==
    LET using_statements == UsingStatements(lines)
    IN  IF Len(using_statements) > UsingLimit
        THEN [m EXCEPT !.unused_usings = 1, !.issues = @ + 1,
                       !.violations = Append(@, Violation("Using statements",
                                                          Len(using_statements), 0))]
        ELSE m

HardcodedPatterns == <<SecretNames1, SecretNames2>>

RECURSIVE SecretLoopNoBreak(_, _, _)
\* mutant: the loop goes on to the next pattern after a match
SecretLoopNoBreak(m, content, k) ==
    IF k > Len(HardcodedPatterns) THEN m
    ELSE SecretLoopNoBreak(
             IF SecretMatches(content, HardcodedPatterns[k]) > 0
             THEN [m EXCEPT !.hardcoded_strings = 1, !.issues = @ + 1,
                            !.violations = Append(@, Violation("Security", 0, 0))]
             ELSE m,
             content, k + 1)

RECURSIVE SecretLoop(_, _, _)
\* for pattern in hardcoded_patterns: ... break (102-108)
SecretLoop(m, content, k) ==
    IF k > Len(HardcodedPatterns) THEN m
    ELSE IF SecretMatches(content, HardcodedPatterns[k]) > 0
         THEN [m EXCEPT !.hardcoded_strings = 1, !.issues = @ + 1,
                        !.violations = Append(@, Violation("Security", 0, 0))]
         ELSE SecretLoop(m, content, k + 1)

\* hardcoded secrets (96-108)
RuleSecrets(m, content) == SecretLoop(m, content, 1)

\* magic numbers (110-117)
RuleMagic(m, content) ==
    LET filtered_magic == FilteredMagic(content, 2)
    IN  IF Len(filtered_magic) > MagicLimit
        THEN [m EXCEPT !.magic_numbers = 1, !.issues = @ + 1,
                       !.violations = Append(@, Violation("Code quality",
                                                          Len(filtered_magic), 0))]
        ELSE m

ComplexMethods(content) ==
    SelectSeq(MethodBlockLines(content), LAMBDA n : n > MethodLineLimit)

\* complex methods (119-125)
RuleComplexity(m, content) ==
    LET complex_methods == ComplexMethods(content)
    IN  IF Len(complex_methods) > 0
        THEN [m EXCEPT !.complex_methods = Len(complex_methods), !.issues = @ + 1,
                       !.violations = Append(@, Violation("Method complexity",
                                                          Len(complex_methods), 0))]
        ELSE m

\* analyze_file_standards(file_path, lines, content): the rules in the order
\* of the code, each working on the metrics the one before left
analyze_file_standards(lines, content) ==
    RuleComplexity(
      RuleMagic(
        RuleSecrets(
          RuleUsings(
            RuleNaming(
              RuleDocumentation(
                RuleLongLines(NewMetrics(lines), lines),
                content),
              content),
            lines),
          content),
        content),
      content)

(***************************************************************************)
(* The pre-commit hook's checks of one staged file                         *)
(* (scripts/pre-commit-quality-check.py 32-59)                             *)
(***************************************************************************)
HookMagicDigits == 3
HookMagicLimit == 3

\* r'public\s+(?:class|struct|interface|\w+\s+\w+)' at position i: the first
\* alternative that matches, in the order of the pattern
HookPublicAt(t, i) ==
    LET a == MatchLit(t, i, L_public)
        b == SkipWhile(t, a, SpaceChars)
        w1 == SkipWhile(t, b, WordChars)
        sp == SkipWhile(t, w1, SpaceChars)
        w2 == SkipWhile(t, sp, WordChars)
    IN  IF a > 0 /\ b > a
        THEN IF MatchLit(t, b, L_class) > 0 THEN MatchLit(t, b, L_class)
             ELSE IF MatchLit(t, b, L_struct) > 0 THEN MatchLit(t, b, L_struct)
             ELSE IF MatchLit(t, b, L_interface) > 0 THEN MatchLit(t, b, L_interface)
             ELSE IF w1 > b /\ sp > w1 /\ w2 > sp THEN w2
             ELSE 0
        ELSE 0

HookPublicMembers(t) ==
    Len(MatchStarts([i \in 1..Len(t) |-> HookPublicAt(t, i)], 1))

\* r'///\s*<summary>' at position i
HookSummaryAt(t, i) ==
    LET a == MatchLit(t, i, L_slashes)
    IN  IF a > 0 THEN MatchLit(t, SkipWhile(t, a, SpaceChars), L_summary_tag) ELSE 0

HookSummaries(t) ==
    Len(MatchStarts([i \in 1..Len(t) |-> HookSummaryAt(t, i)], 1))

\* "lines": long_lines[:5]
ViolationLinesShown == 5

\* for i, line in enumerate(lines, 1): if len(line) > 120 (40-42)
HookLongLines(lines) ==
    LET numbers == SelectSeq([k \in 1..Len(lines) |-> k],
                             LAMBDA k : Len(lines[k]) > LineLimit)
    IN  [k \in 1..Len(numbers) |->
            [kind |-> "line length", line |-> numbers[k],
             chars |-> Len(lines[numbers[k]])]]

\* for prop in camel_props (45-47)
HookNaming(content) ==
    LET camel_props == CamelProps(content)
    IN  [k \in 1..Len(camel_props) |-> [kind |-> "naming", prop |-> camel_props[k]]]

\* magic numbers of three digits and more (50-53)
HookMagic(content) ==
    LET filtered_magic == FilteredMagic(content, HookMagicDigits)
    IN  IF Len(filtered_magic) > HookMagicLimit
        THEN <<[kind |-> "magic numbers", count |-> Len(filtered_magic)]>>
        ELSE <<>>

\* missing documentation on public members (56-59)
HookDocs(content) ==
    LET public_members == HookPublicMembers(content)
        xml_docs == HookSummaries(content)
    IN  IF public_members > xml_docs /\ public_members > 0
        THEN <<[kind |-> "documentation", count |-> public_members - xml_docs,
                of |-> public_members]>>
        ELSE <<>>

\* long_lines of analyze_csharp_violations: for i, line in enumerate(lines, 1):
\* if len(line) > 120: long_lines.append(i)
ViolationLongLines(lines) ==
    SelectSeq([k \in 1..Len(lines) |-> k], LAMBDA k : Len(lines[k]) > LineLimit)

\* analyze_csharp_violations: naming, missing documentation and line length
\* of one text; "lines": long_lines[:5]
analyze_csharp_violations(content) ==
    LET camel_properties == CamelProps(content)
        public_members == HookPublicMembers(content)
        xml_docs == HookSummaries(content)
        long_lines == ViolationLongLines(SplitLines(content))
    IN  [k \in 1..Len(camel_properties) |->
            [type |-> "Naming Convention", severity |-> "Major",
             prop |-> camel_properties[k], fixable |-> TRUE]]
        \o (IF public_members > xml_docs
            THEN <<[type |-> "Missing Documentation", severity |-> "Major",
                    count |-> public_members - xml_docs, fixable |-> TRUE]>>
            ELSE <<>>)
        \o (IF long_lines # <<>>
            THEN <<[type |-> "Line Length", severity |-> "Minor",
                    count |-> Len(long_lines),
                    lines |-> SubSeq(long_lines, 1, Min(ViolationLinesShown, Len(long_lines))),
                    fixable |-> TRUE]>>
            ELSE <<>>)

\* file_issues of one staged file (34-59)
HookFileIssues(content) ==
    HookLongLines(SplitLines(content)) \o HookNaming(content)
        \o HookMagic(content) \o HookDocs(content)

(***************************************************************************)
(* The C# texts the scanners are run on: pieces joined by newlines          *)
(***************************************************************************)
\* public string name { get; set; }
T_camel_prop == <<"p","u","b","l","i","c"," ","s","t","r","i","n","g"," ","n","a","m","e"," ","{"," ","g","e","t",";"," ","s","e","t",";"," ","}">>
\* public string Name { get; set; }
T_pascal_prop == <<"p","u","b","l","i","c"," ","s","t","r","i","n","g"," ","N","a","m","e"," ","{"," ","g","e","t",";"," ","s","e","t",";"," ","}">>
\* /// <summary>
T_summary == <<"/","/","/"," ","<","s","u","m","m","a","r","y",">">>
\* Password = "abc123"
T_secret == <<"P","a","s","s","w","o","r","d"," ","="," ","\"","a","b","c","1","2","3","\"">>
\* PASSWORD = "abc123"
T_secret_upper == <<"P","A","S","S","W","O","R","D"," ","="," ","\"","a","b","c","1","2","3","\"">>
\* api_key = "k"
T_api_key == <<"a","p","i","_","k","e","y"," ","="," ","\"","k","\"">>
\* 11 12 13 14 15 16
T_magic6 == <<"1","1"," ","1","2"," ","1","3"," ","1","4"," ","1","5"," ","1","6">>
\* 11 12 13 14 15 100
T_magic5 == <<"1","1"," ","1","2"," ","1","3"," ","1","4"," ","1","5"," ","1","0","0">>
\* using A;
T_using == <<"u","s","i","n","g"," ","A",";">>
\* private void Run() {
T_method_head == <<"p","r","i","v","a","t","e"," ","v","o","i","d"," ","R","u","n","(",")"," ","{">>

\* a line of n characters
LineOf(n) == Rep("x", n)

\* a line whose raw length is n and whose stripped length is n - 2
PaddedLine(n) == <<" ">> \o Rep("x", n - 2) \o <<" ">>

\* n using statements, one a line
Usings(n) == Join([k \in 1..n |-> T_using], <<"\n">>)

\* a method whose body, split at the newlines, has n lines
MethodOf(n) == T_method_head \o Rep("\n", n - 1) \o <<"}">>

Segments ==
    {"camel_prop", "pascal_prop", "summary", "secret", "magic6", "magic5",
     "long_line", "limit_line", "padded_line", "usings_over", "usings_at",
     "long_method", "limit_method"}

SegmentText(s) ==
    CASE s = "camel_prop" -> T_camel_prop
      [] s = "pascal_prop" -> T_pascal_prop
      [] s = "summary" -> T_summary
      [] s = "secret" -> T_secret
      [] s = "magic6" -> T_magic6
      [] s = "magic5" -> T_magic5
      [] s = "long_line" -> LineOf(LineLimit + 1)
      [] s = "limit_line" -> LineOf(LineLimit)
      [] s = "padded_line" -> PaddedLine(LineLimit + 1)
      [] s = "usings_over" -> Usings(UsingLimit + 1)
      [] s = "usings_at" -> Usings(UsingLimit)
      [] s = "long_method" -> MethodOf(MethodLineLimit + 1)
      [] s = "limit_method" -> MethodOf(MethodLineLimit)
      [] s = "secret_lower" -> ToLower(T_secret)
      [] s = "secret_upper" -> T_secret_upper
      [] s = "api_key" -> T_api_key
      [] s = "line_150" -> LineOf(LineLimit + 30)
      [] s = "indented_150" -> Rep(" ", 30) \o LineOf(LineLimit)
      [] s = "trailing_150" -> LineOf(LineLimit) \o Rep(" ", 30)
      [] s = "indented_154" -> Rep(" ", 4) \o LineOf(LineLimit + 30)

MaxSegs == 2

\* the documents of at most MaxSegs pieces, and one in which every rule fires
SegLists == UNION {[1..n -> Segments] : n \in 0..MaxSegs}

EveryRule ==
    <<"long_line", "camel_prop", "usings_over", "secret", "magic6", "long_method">>

DocText(segs) == Join([k \in 1..Len(segs) |-> SegmentText(segs[k])], <<"\n">>)

\* documents with lines of 150 characters, with and without white space at
\* their ends
LineDocs ==
    { <<"line_150">>, <<"indented_150">>, <<"trailing_150">>, <<"indented_154">>,
      <<"limit_line", "line_150", "camel_prop">>, <<"line_150", "line_150">>,
      <<"padded_line", "line_150">>, <<"summary", "indented_150", "limit_line">>,
      <<"summary", "indented_154", "padded_line">> }

\* documents with one or several secret assignments, in lower, upper and
\* mixed case, matching the first pattern alone or both patterns
SecretDocs ==
    { <<"secret_lower">>, <<"secret_upper">>, <<"api_key">>,
      <<"secret_lower", "secret_upper", "secret">>,
      <<"secret_lower", "api_key">>, <<"api_key", "secret_upper", "camel_prop">>,
      <<"secret", "api_key", "api_key", "magic6">>,
      <<"summary", "secret_upper", "secret_upper">> }

ScanDocs == SegLists \cup {EveryRule} \cup LineDocs \cup SecretDocs

ScanTexts == {DocText(segs) : segs \in ScanDocs}

(***************************************************************************)
(* One file scanned by the validator and by the hook                       *)
(***************************************************************************)
ScanInit ==
    /\ ScoreIdle /\ OrchIdle /\ RepoIdle /\ BraceIdle /\ HookIdle
    /\ pc = "scan"
    /\ file_text \in ScanTexts
    /\ file_metrics = None
    /\ file_issues = None
    /\ csharp_violations = None

\* lines = f.readlines(); content = ''.join(lines);
\* file_metrics = analyze_file_standards(cs_file, lines, content)
ScanFile ==
    /\ pc = "scan"
    /\ pc' = "hook"
    /\ file_metrics' = analyze_file_standards(ReadLines(file_text), file_text)
    /\ UNCHANGED <<scoreVars, orchVars, hookVars, file_text, file_issues, csharp_violations,
                   repoVars, braceVars>>

\* the hook's checks of the same file
HookCheckFile ==
    /\ pc = "hook"
    /\ pc' = "scanned"
    /\ file_issues' = HookFileIssues(file_text)
    /\ UNCHANGED <<scoreVars, orchVars, hookVars, file_text, file_metrics, csharp_violations,
                   repoVars, braceVars>>

\* analyze_file_standards called once more on the lines and the content of
\* the same file
ScanAgain ==
    /\ pc = "scanned"
    /\ pc' = "rescanned"
    /\ file_metrics' = analyze_file_standards(ReadLines(file_text), file_text)
    /\ UNCHANGED <<scoreVars, orchVars, hookVars, file_text, file_issues, csharp_violations,
                   repoVars, braceVars>>

\* violations = analyze_csharp_violations() on the same text: content =
\* f.read(); lines = content.split('\n')
AnalyzeViolations ==
    /\ pc = "rescanned"
    /\ pc' = "analyzed"
    /\ csharp_violations' = analyze_csharp_violations(file_text)
    /\ UNCHANGED <<scoreVars, orchVars, hookVars, file_text, file_metrics, file_issues,
                   repoVars, braceVars>>

ScanNext == ScanFile \/ HookCheckFile \/ ScanAgain \/ AnalyzeViolations

SpecScan == ScanInit /\ [][ScanNext]_vars

Scanned == pc \in {"hook", "scanned"}

\* the rules of analyze_file_standards whose condition holds for a file,
\* each condition taken on the file as it was read
RuleNames ==
    {"long_lines", "missing_docs", "camel_case_props", "unused_usings",
     "hardcoded_strings", "magic_numbers", "complex_methods"}

RuleHolds(rule, lines, text) ==
    CASE rule = "long_lines" -> LongLines(lines) # <<>>
      [] rule = "missing_docs" ->
            PublicMembers(text) > CountLit(text, L_summary) /\ PublicMembers(text) > 0
      [] rule = "camel_case_props" -> Len(CamelProps(text)) > 0
      [] rule = "unused_usings" -> Len(UsingStatements(lines)) > UsingLimit
      [] rule = "hardcoded_strings" ->
            SecretMatches(text, SecretNames1) + SecretMatches(text, SecretNames2) > 0
      [] rule = "magic_numbers" -> Len(FilteredMagic(text, 2)) > MagicLimit
      [] rule = "complex_methods" ->
            ComplexMethods(text) # <<>>

RulesFired(text) == {rule \in RuleNames : RuleHolds(rule, ReadLines(text), text)}

\* C7: the metrics analyze_file_standards returns for a file have issues equal
\* to the number of rules whose condition holds for the file (not the number
\* of matches), equal to the length of the violations list and at most 7; and
\* every rule whose condition holds has its flag set, whatever fired before it.
C7_IssuesCountRules ==
    Scanned =>
        /\ file_metrics.issues = Cardinality(RulesFired(file_text))
        /\ file_metrics.issues = Len(file_metrics.violations)
        /\ file_metrics.issues <= Cardinality(RuleNames)
        /\ {rule \in RuleNames : file_metrics[rule] > 0} = RulesFired(file_text)

\* a file in which all seven rules fire, several of them on many matches
C7_Witness ==
    /\ Scanned
    /\ RulesFired(file_text) = RuleNames
    /\ file_metrics.issues = Cardinality(RuleNames)
    /\ Len(FilteredMagic(file_text, 2)) > 1

HasViolation(violations, rule) ==
    \E k \in 1..Len(violations) : violations[k].rule = rule

IssuesOfKind(found, kind) == SelectSeq(found, LAMBDA issue : issue.kind = kind)

L_name == <<"n","a","m","e">>

\* the naming violation for the property name, in both scanners
NamingViolationForName ==
    /\ file_metrics.camel_case_props = 1
    /\ HasViolation(file_metrics.violations, "Naming convention")
    /\ IssuesOfKind(file_issues, "naming") = <<[kind |-> "naming", prop |-> L_name]>>

\* C8 as stated: the file whose only content is
\* public string name { get; set; } yields a naming violation for name, no
\* documentation violation, and a non-empty violation list.
C8_NamingAndNoDocViolation ==
    (pc = "scanned" /\ file_text = T_camel_prop) =>
        /\ NamingViolationForName
        /\ file_metrics.missing_docs = 0
        /\ ~HasViolation(file_metrics.violations, "Missing documentation")
        /\ IssuesOfKind(file_issues, "documentation") = <<>>
        /\ file_metrics.violations # <<>> /\ file_issues # <<>>

\* C8, amended: the file whose only content is public string name { get; set; }
\* yields a naming violation for name, exactly one documentation violation
\* (the property is a public member without a summary: 1 of 1 undocumented)
\* and a non-empty violation list.
C8_NamingAndOneDocViolation ==
    (pc = "scanned" /\ file_text = T_camel_prop) =>
        /\ NamingViolationForName
        /\ file_metrics.missing_docs = 1
        /\ SelectSeq(file_metrics.violations,
                     LAMBDA v : v.rule = "Missing documentation")
               = <<Violation("Missing documentation", 1, 1)>>
        /\ IssuesOfKind(file_issues, "documentation")
               = <<[kind |-> "documentation", count |-> 1, of |-> 1]>>
        /\ Len(file_metrics.violations) = 2 /\ Len(file_issues) = 2

C8_Witness ==
    /\ pc = "scanned" /\ file_text = T_camel_prop
    /\ file_metrics.issues = 2 /\ Len(file_issues) = 2

(***************************************************************************)
(* analyze_repository_standards (tests/code-standards-validator.py 265-388)*)
(***************************************************************************)
EndsWith(t, lit) ==
    Len(t) >= Len(lit) /\ SubSeq(t, Len(t) - Len(lit) + 1, Len(t)) = lit

\* lit in t
Contains(t, lit) == \E i \in 1..Len(t) : MatchLit(t, i, lit) > 0

L_cs == <<".","c","s">>
\* ["/bin/", "/obj/", "/.git/", "/packages/"]
SkipMarks ==
    { <<"/","b","i","n","/">>, <<"/","o","b","j","/">>,
      <<"/",".","g","i","t","/">>, <<"/","p","a","c","k","a","g","e","s","/">> }

\* the working tree: its directories, in the two orders os.walk(".") can
\* yield them (a directory before its subdirectories, the subdirectories of
\* "." in either order), and the files of each
D_top == <<".">>
D_shared == <<".","/","S","h","a","r","e","d">>
D_bin == <<".","/","b","i","n">>
D_bin_debug == <<".","/","b","i","n","/","D","e","b","u","g">>

WalkOrders ==
    { <<D_top, D_shared, D_bin, D_bin_debug>>, <<D_top, D_bin, D_bin_debug, D_shared>> }

F_a == <<"A",".","c","s">>
F_b == <<"B",".","c","s">>
F_c == <<"C",".","c","s">>
F_d == <<"D",".","c","s">>
F_notes == <<"n","o","t","e","s",".","t","x","t">>

FilesIn(root) ==
    CASE root = D_top -> <<F_a, F_notes>>
      [] root = D_shared -> <<F_b>>
      [] root = D_bin -> <<F_c>>
      [] root = D_bin_debug -> <<F_d>>

\* os.path.join(root, file)
PathJoin(root, file) == root \o <<"/">> \o file

P_a == PathJoin(D_top, F_a)
P_b == PathJoin(D_shared, F_b)
P_c == PathJoin(D_bin, F_c)
P_d == PathJoin(D_bin_debug, F_d)
P_notes == PathJoin(D_top, F_notes)

\* what the disk holds at a path: nothing, a file that cannot be read or
\* decoded, or a text, given by its pieces
Absent == [present |-> FALSE, readable |-> FALSE, pieces |-> <<>>]
Unreadable == [present |-> TRUE, readable |-> FALSE, pieces |-> <<>>]
TextFile(segs) == [present |-> TRUE, readable |-> TRUE, pieces |-> segs]

\* the texts of the working tree: a documented property (no rule fires), one
\* text for each rule, a file with two long methods, and EveryRule
RepoDocs ==
    { <<"summary", "pascal_prop">>, <<"secret">>, <<"camel_prop">>, <<"magic6">>,
      <<"long_line">>, <<"usings_over">>, <<"long_method">>,
      <<"long_method", "long_method">>, EveryRule }

FileStates == {Absent, Unreadable} \cup {TextFile(segs) : segs \in RepoDocs}

\* f.read() of a readable file
FileText(d, path) == DocText(d[path].pieces)

\* the files of a directory that are on the disk, in listing order
Listed(d, root) ==
    SelectSeq(FilesIn(root), LAMBDA file : d[PathJoin(root, file)].present)

RECURSIVE Walk(_, _)
\* for root, dirs, files in os.walk("."): ... (291-297)
Walk(d, roots) ==
    IF roots = <<>> THEN <<>>
    ELSE LET root == Head(roots)
             kept == SelectSeq(Listed(d, root), LAMBDA file : EndsWith(file, L_cs))
         IN  IF \E skip \in SkipMarks : Contains(root, skip)
             THEN Walk(d, Tail(roots))
             ELSE [k \in 1..Len(kept) |-> PathJoin(root, kept[k])] \o Walk(d, Tail(roots))

MetricKeys ==
    {"long_lines", "missing_docs", "camel_case_props", "unused_usings",
     "hardcoded_strings", "complex_methods", "magic_numbers", "total_loc",
     "documented_members", "total_public_members"}

TotalTests == 5

\* analysis_results as created (267-287); the time stamp and the fixed
\* repository and version strings are left out
NewResults ==
    [ summary |-> [files_analyzed |-> 0, total_tests |-> 0, passed |-> 0,
                   failed |-> 0, issues_found |-> 0, coverage_percentage |-> 0],
      issues |-> [critical |-> 0, major |-> 0, minor |-> 0, fixable |-> 0],
      violations |-> <<>>,
      file_details |-> <<>> ]

RepoInit ==
    /\ ScoreIdle /\ OrchIdle /\ ScanIdle /\ BraceIdle /\ HookIdle
    /\ pc = "rs_walk"
    /\ \E a, b, c \in FileStates :
          disk = (P_a :> a) @@ (P_b :> b) @@ (P_c :> c)
                 @@ (P_d :> TextFile(<<"secret">>)) @@ (P_notes :> TextFile(<<"secret">>))
    /\ cs_files = <<>>
    /\ file_index = 0
    /\ analysis_metrics = None
    /\ analysis_results = None
    /\ sorted_files = <<>>

\* the file discovery and the creation of the two records (267-313)
RS_Walk ==
    /\ pc = "rs_walk"
    /\ \E roots \in WalkOrders :
          /\ cs_files' = Walk(disk, roots)
          /\ analysis_results' =
                [NewResults EXCEPT !.summary.files_analyzed = Len(Walk(disk, roots))]
    /\ analysis_metrics' = [key \in MetricKeys |-> 0]
    /\ file_index' = 1
    /\ pc' = "rs_loop"
    /\ UNCHANGED <<scoreVars, orchVars, hookVars, scanVars, disk, sorted_files, braceVars>>

\* mutant: the metrics of a file take the place of the sums
RS_AnalyzeFileOnly ==
    /\ pc = "rs_loop"
    /\ file_index <= Len(cs_files)
    /\ LET cs_file == cs_files[file_index]
       IN  IF disk[cs_file].readable
           THEN \E text \in {FileText(disk, cs_file)} :
                \E metrics \in {analyze_file_standards(ReadLines(text), text)} :
                   /\ file_text' = text
                   /\ file_metrics' = metrics
                   /\ analysis_metrics' = [key \in MetricKeys |-> metrics[key]]
                   /\ analysis_results' =
                         IF metrics.issues > 0
                         THEN [analysis_results EXCEPT !.file_details =
                                  Append(@, [file |-> cs_file, issues |-> metrics.issues,
                                             violations |-> metrics.violations])]
                         ELSE analysis_results
           ELSE UNCHANGED <<file_text, file_metrics, analysis_metrics, analysis_results>>
    /\ file_index' = file_index + 1
    /\ UNCHANGED <<pc, scoreVars, orchVars, hookVars, file_issues, csharp_violations, disk, cs_files,
                   sorted_files, braceVars>>

\* one turn of the loop over cs_files (315-337): a file that cannot be read
\* is passed over by the except clause
RS_AnalyzeFile ==
    /\ pc = "rs_loop"
    /\ file_index <= Len(cs_files)
    /\ LET cs_file == cs_files[file_index]
       IN  IF disk[cs_file].readable
           THEN \E text \in {FileText(disk, cs_file)} :
                \E metrics \in {analyze_file_standards(ReadLines(text), text)} :
                   /\ file_text' = text
                   /\ file_metrics' = metrics
                   /\ analysis_metrics' =
                         [key \in MetricKeys |-> analysis_metrics[key] + metrics[key]]
                   /\ analysis_results' =
                         IF metrics.issues > 0
                         THEN [analysis_results EXCEPT !.file_details =
                                  Append(@, [file |-> cs_file, issues |-> metrics.issues,
                                             violations |-> metrics.violations])]
                         ELSE analysis_results
           ELSE UNCHANGED <<file_text, file_metrics, analysis_metrics, analysis_results>>
    /\ file_index' = file_index + 1
    /\ UNCHANGED <<pc, scoreVars, orchVars, hookVars, file_issues, csharp_violations, disk, cs_files,
                   sorted_files, braceVars>>

FilesWith(rule, count) == [rule |-> rule, files |-> count]

\* the summary violations, in the order of the code (364-378)
SummaryViolations(m) ==
    LET Line(rule, key) == IF m[key] > 0 THEN <<FilesWith(rule, m[key])>> ELSE <<>>
    IN  Line("Naming conventions", "camel_case_props")
        \o Line("Documentation", "missing_docs")
        \o Line("Line length", "long_lines")
        \o Line("Code organization", "unused_usings")
        \o Line("Security", "hardcoded_strings")
        \o Line("Method complexity", "complex_methods")
        \o Line("Code quality", "magic_numbers")

\* round(documented / total * 100, 1), in tenths of a percent; with the
\* member counts of the texts above the quotient is never half way between
\* two tenths
CoverageTenths(documented, total) == (2000 * documented + total) \div (2 * total)

\* the severity totals, the coverage, the summary violations and the test
\* counts (339-386)
RS_Categorize ==
    /\ pc = "rs_loop"
    /\ file_index > Len(cs_files)
    /\ LET m == analysis_metrics
           critical == m.hardcoded_strings
           major == m.missing_docs + m.camel_case_props + m.complex_methods
           minor == m.long_lines + m.unused_usings + m.magic_numbers
           violations == SummaryViolations(m)
       IN  analysis_results' =
              [analysis_results EXCEPT
                  !.issues = [critical |-> critical, major |-> major, minor |-> minor,
                              fixable |-> major + minor],
                  !.summary.issues_found = critical + major + minor,
                  !.summary.coverage_percentage =
                      IF m.total_public_members > 0
                      THEN CoverageTenths(m.documented_members, m.total_public_members)
                      ELSE @,
                  !.violations = violations,
                  !.summary.total_tests = TotalTests,
                  !.summary.passed = TotalTests - Min(TotalTests, Len(violations)),
                  !.summary.failed = Min(TotalTests, Len(violations))]
    /\ pc' = "rs_done"
    /\ UNCHANGED <<scoreVars, orchVars, hookVars, scanVars, disk, cs_files, file_index,
                   analysis_metrics, sorted_files, braceVars>>

\* x put into a list sorted by falling issue count, behind the entries that
\* have at least as many issues
InsertByIssues(sorted, x) ==
    LET k == Cardinality({i \in 1..Len(sorted) : sorted[i].issues >= x.issues})
    IN  SubSeq(sorted, 1, k) \o <<x>> \o SubSeq(sorted, k + 1, Len(sorted))

RECURSIVE SortedAscending(_)
\* mutant: the list is sorted by rising issue count
SortedAscending(details) ==
    IF details = <<>> THEN <<>>
    ELSE LET sorted == SortedAscending(SubSeq(details, 1, Len(details) - 1))
             x == details[Len(details)]
             k == Cardinality({i \in 1..Len(sorted) : sorted[i].issues <= x.issues})
         IN  SubSeq(sorted, 1, k) \o <<x>> \o SubSeq(sorted, k + 1, Len(sorted))

RECURSIVE SortedByIssues(_)
\* sorted(results["file_details"], key=lambda x: x["issues"], reverse=True):
\* by falling issue count, files with equal counts in the order they had
SortedByIssues(details) ==
    IF details = <<>> THEN <<>>
    ELSE InsertByIssues(SortedByIssues(SubSeq(details, 1, Len(details) - 1)),
                        details[Len(details)])

\* show_repository_analysis after analyze_repository_standards returned
\* (396-435): the files are listed from sorted_files, the score is computed
RS_Show ==
    /\ pc = "rs_done"
    /\ sorted_files' = SortedByIssues(analysis_results.file_details)
    /\ quality_score' = calculate_quality_score(analysis_results.issues)
    /\ pc' = "rs_shown"
    /\ UNCHANGED <<issues, orchVars, hookVars, scanVars, disk, cs_files, file_index,
                   analysis_metrics, analysis_results, braceVars>>

RepoNext == RS_Walk \/ RS_AnalyzeFile \/ RS_Categorize \/ RS_Show

SpecRepo == RepoInit /\ [][RepoNext]_vars

\* the files that were read and analyzed
AnalyzedFiles == {k \in 1..Len(cs_files) : disk[cs_files[k]].readable}

\* the number of analyzed files for which the rule's condition holds
FilesWhere(rule) ==
    Cardinality({k \in AnalyzedFiles :
                    \E text \in {FileText(disk, cs_files[k])} :
                    \E lines \in {ReadLines(text)} : RuleHolds(rule, lines, text)})

\* C6 as stated: after analyze_repository_standards, critical is the number of
\* files where the secret rule fired, major the number of files where naming
\* fired plus those where documentation fired plus those where complexity
\* fired, minor the same for line length, using statements and magic numbers.
C6_SeverityCountsFiles ==
    pc = "rs_done" =>
        /\ analysis_results.issues.critical = FilesWhere("hardcoded_strings")
        /\ analysis_results.issues.major =
              FilesWhere("camel_case_props") + FilesWhere("missing_docs")
              + FilesWhere("complex_methods")
        /\ analysis_results.issues.minor =
              FilesWhere("long_lines") + FilesWhere("unused_usings")
              + FilesWhere("magic_numbers")

(***************************************************************************)
(* find_unbalanced_braces (find-braces.py 6-51)                            *)
(***************************************************************************)
L_here_open == <<"@","\"">>
L_here_close == <<"\"","@">>
L_if == <<"i","f">>
L_else == <<"e","l","s","e">>
L_dollar_paren == <<"$","(">>

\* mutant: a here-string ends at the end of its first line
HereStringOneLineAt(t, i) ==
    LET a == MatchLit(t, i, L_here_open)
        closers == {j \in a..Len(t) : MatchLit(t, j, L_here_close) > 0}
    IN  IF a > 0 /\ closers # {} /\ CountChar(t, a, First(closers), "\n") = 0
        THEN First(closers) + Len(L_here_close)
        ELSE 0

\* r'@"[\s\S]*?"@' at position i: up to the nearest closing mark
HereStringAt(t, i) ==
    LET a == MatchLit(t, i, L_here_open)
        closers == {j \in a..Len(t) : MatchLit(t, j, L_here_close) > 0}
    IN  IF a > 0 /\ closers # {} THEN First(closers) + Len(L_here_close) ELSE 0

\* mutant: hashtable literals are left in the text
HashtableKeptAt(t, i) == 0

\* r'@\s*{[^}]*}' at position i
HashtableAt(t, i) ==
    LET b == SkipWhile(t, i + 1, SpaceChars)
        c == SkipUntil(t, b + 1, {"}"})
    IN  IF At(t, i) = "@" /\ At(t, b) = "{" /\ At(t, c) = "}" THEN c + 1 ELSE 0

\* r'if\s*\([^)]*\)\s*{\s*[^}]*\s*}\s*else\s*{\s*[^}]*\s*}' at position i.
\* White space is not a closing brace, so \s*[^}]*\s* runs to the first
\* closing brace; \s and the negated classes match newlines too.
IfElseAt(t, i) ==
    LET a == MatchLit(t, i, L_if)
        b == SkipWhile(t, a, SpaceChars)
        c == SkipUntil(t, b + 1, {")"})
        d == SkipWhile(t, c + 1, SpaceChars)
        e == SkipUntil(t, d + 1, {"}"})
        f == SkipWhile(t, e + 1, SpaceChars)
        g == MatchLit(t, f, L_else)
        h == SkipWhile(t, g, SpaceChars)
        k == SkipUntil(t, h + 1, {"}"})
    IN  IF a > 0 /\ At(t, b) = "(" /\ At(t, c) = ")" /\ At(t, d) = "{"
           /\ At(t, e) = "}" /\ g > 0 /\ At(t, h) = "{" /\ At(t, k) = "}"
        THEN k + 1
        ELSE 0

\* r'\$\(\s*if ... \s*\)' at position i
DollarIfElseAt(t, i) ==
    LET a == MatchLit(t, i, L_dollar_paren)
        b == IfElseAt(t, SkipWhile(t, a, SpaceChars))
        c == SkipWhile(t, b, SpaceChars)
    IN  IF a > 0 /\ b > 0 /\ At(t, c) = ")" THEN c + 1 ELSE 0

RECURSIVE RemoveFrom(_, _, _)
\* re.sub(pattern, '', t) from position i on: the text up to the next match
\* is kept, the match is dropped, and the search goes on from its end
RemoveFrom(t, ends, i) ==
    LET hits == {j \in i..Len(t) : ends[j] > j}
    IN  IF hits = {} THEN SubSeq(t, i, Len(t))
        ELSE SubSeq(t, i, First(hits) - 1) \o RemoveFrom(t, ends, ends[First(hits)])

RemoveHereStrings(t) == RemoveFrom(t, [i \in 1..Len(t) |-> HereStringAt(t, i)], 1)
RemoveHashtables(t) == RemoveFrom(t, [i \in 1..Len(t) |-> HashtableAt(t, i)], 1)
RemoveIfElse(t) == RemoveFrom(t, [i \in 1..Len(t) |-> IfElseAt(t, i)], 1)
RemoveDollarIfElse(t) == RemoveFrom(t, [i \in 1..Len(t) |-> DollarIfElseAt(t, i)], 1)

\* mutant: the scan of a line stops at its first brace
LineFirstBrace(line, i, ch) ==
    LET cols == SelectSeq([j \in 1..Len(line) |-> j], LAMBDA j : line[j] = ch)
    IN  [k \in 1..Min(1, Len(cols)) |->
            [line |-> i, col |-> cols[k] - 1, text |-> Strip(line)]]

\* the braces ch of line number i: (i, j, line.strip()) for each column j,
\* counted from 0
LineBraces(line, i, ch) ==
    LET cols == SelectSeq([j \in 1..Len(line) |-> j], LAMBDA j : line[j] = ch)
    IN  [k \in 1..Len(cols) |-> [line |-> i, col |-> cols[k] - 1, text |-> Strip(line)]]

RECURSIVE BracesFrom(_, _, _)
\* for i, line in enumerate(lines, 1): for j, char in enumerate(line) (30-35)
BracesFrom(lines, i, ch) ==
    IF i > Len(lines) THEN <<>>
    ELSE LineBraces(lines[i], i, ch) \o BracesFrom(lines, i + 1, ch)

TokensShown == 10

\* mutant: the first tokens are listed
FirstTokens(tokens) == SubSeq(tokens, 1, Min(TokensShown, Len(tokens)))

\* open_braces[-10:], close_braces[-10:] (42-48)
LastTokens(tokens) == SubSeq(tokens, Max(1, Len(tokens) - TokensShown + 1), Len(tokens))

\* the PowerShell texts: the pieces below put one after the other, and some
\* longer texts
BracePieces ==
    { <<"@","{">>, <<"{">>, <<"}">>, L_here_open, L_here_close, <<"\n">>,
      <<"i","f"," ","(","x",")"," ","{">>, <<"}"," ","e","l","s","e"," ","{">>, <<"a">> }

MaxPieces == 3

RECURSIVE Concat(_)
Concat(parts) == IF parts = <<>> THEN <<>> ELSE Head(parts) \o Concat(Tail(parts))

\* @{ a = 1; b = 2 }
T_hashtable == <<"@","{"," ","a"," ","="," ","1",";"," ","b"," ","="," ","2"," ","}">>
\* an if/else over four lines whose first block opens a brace it never closes
T_if_lines == <<"i","f"," ","(","x",")"," ","{","\n","{","\n","}"," ","e","l","s","e"," ","{","\n","}">>
\* the same conditional on one line
T_if_inline == <<"i","f"," ","(","x",")"," ","{"," ","a"," ","}"," ","e","l","s","e"," ","{"," ","b"," ","}">>
\* $(if (x) { a } else { b })
T_dollar_if == <<"$","(","i","f"," ","(","x",")"," ","{"," ","a"," ","}"," ","e","l","s","e"," ","{"," ","b"," ","}",")">>
\* a here-string of five lines, and three pairs of braces outside it
T_here_lines == <<"{"," ","}","\n","@","\"","\n","{"," ","{","\n","}","\n","a","\n","\"","@","\n","{"," ","}"," ","{"," ","}">>
\* if (x { a } else { b }: the parenthesis is never closed
T_open_paren == <<"i","f"," ","(","x"," ","{"," ","a"," ","}"," ","e","l","s","e"," ","{"," ","b"," ","}">>
\* $(if (x) { a } else { b }: the expression is never closed
T_open_dollar == <<"$","(","i","f"," ","(","x",")"," ","{"," ","a"," ","}"," ","e","l","s","e"," ","{"," ","b"," ","}">>
\* an unclosed parenthesis, an unclosed hashtable literal and the opening mark
\* of a here-string that never ends
T_malformed == <<"(","\n","@","{"," ","a","\n","@","\"","\n","{"," ","{","\n">>
\* lines of n opening braces and m closing braces, numbered by letters
BraceLines(n, m) ==
    Concat([k \in 1..n |-> <<"{", " ", LowerLetters[k], "\n">>])
    \o Concat([k \in 1..m |-> <<"}", " ", LowerLetters[k], "\n">>])

\* texts with more braces than are listed, of one kind or of both
ManyBraces ==
    { BraceLines(TokensShown + 2, 3), BraceLines(3, TokensShown + 2),
      BraceLines(TokensShown + 2, TokensShown + 1), BraceLines(TokensShown, TokensShown),
      BraceLines(TokensShown + 1, TokensShown + 1), BraceLines(TokensShown, 0) }

\* a hashtable literal with a nested one
T_nested_hashtable == <<"@","{"," ","a"," ","="," ","@","{"," ","b"," ","="," ","1"," ","}"," ","}">>

\* the lines a here-string may hold, with braces and with the openings of
\* the other patterns
HereContentLines ==
    { <<"{"," ","{">>, <<"}">>, <<"@","{"," ","a">>, <<"i","f"," ","(","x",")"," ","{">> }

\* a here-string of five lines: the opening mark, three lines, the closing mark
HereString(c1, c2, c3) ==
    Join(<<L_here_open, c1, c2, c3, L_here_close>>, <<"\n">>)

T_pair == <<"{"," ","}">>

\* the lines around the here-string: three pairs of braces in all, before it,
\* after it, or around it
HereLayouts ==
    { [before |-> <<>>, after |-> <<T_pair, T_pair, T_pair>>],
      [before |-> <<T_pair>>, after |-> <<T_pair, T_pair>>],
      [before |-> <<T_pair, T_pair>>, after |-> <<T_pair>>],
      [before |-> <<T_pair, T_pair, T_pair>>, after |-> <<>>],
      [before |-> <<T_pair, <<"{">>>>, after |-> <<<<"}">>, T_pair>>],
      [before |-> <<<<"{">>, <<"{">>, <<"{">>>>, after |-> <<<<"}"," ","}"," ","}">>>>] }

HereTexts ==
    { Join(layout.before \o <<HereString(c1, c2, c3)>> \o layout.after, <<"\n">>) :
        layout \in HereLayouts, c1 \in HereContentLines, c2 \in HereContentLines,
        c3 \in HereContentLines }

BraceTexts ==
    {Concat(parts) : parts \in UNION {[1..n -> BracePieces] : n \in 0..MaxPieces}}
    \cup {T_hashtable, T_if_lines, T_if_inline, T_dollar_if, T_here_lines,
          T_nested_hashtable, T_open_paren, T_open_dollar, T_malformed}
    \cup HereTexts \cup ManyBraces

BraceInit ==
    /\ ScoreIdle /\ OrchIdle /\ ScanIdle /\ RepoIdle /\ HookIdle
    /\ pc = "fb_start"
    /\ ps_content \in BraceTexts
    /\ content_clean = None
    /\ open_braces = <<>>
    /\ close_braces = <<>>
    /\ balanced = None
    /\ last_open = <<>>
    /\ last_close = <<>>

\* find_unbalanced_braces(filename), the file having been read
FindBraces ==
    /\ pc = "fb_start"
    /\ \E content_no_herestrings \in {RemoveHereStrings(ps_content)} :
       \E content_no_hashtables \in {RemoveHashtables(content_no_herestrings)} :
       \E content_no_inline_if \in {RemoveIfElse(content_no_hashtables)} :
       \E clean \in {RemoveDollarIfElse(content_no_inline_if)} :
       \E lines \in {SplitLines(clean)} :
       \E opened \in {BracesFrom(lines, 1, "{")} :
       \E closed \in {BracesFrom(lines, 1, "}")} :
          /\ content_clean' = clean
          /\ open_braces' = opened
          /\ close_braces' = closed
          /\ balanced' = (Len(opened) = Len(closed))
          /\ last_open' = IF Len(opened) # Len(closed) THEN LastTokens(opened) ELSE <<>>
          /\ last_close' = IF Len(opened) # Len(closed) THEN LastTokens(closed) ELSE <<>>
    /\ pc' = "fb_done"
    /\ UNCHANGED <<scoreVars, orchVars, hookVars, scanVars, repoVars, ps_content>>

BraceNext == FindBraces

SpecBraces == BraceInit /\ [][BraceNext]_vars

HasHereString(t) == \E i \in 1..Len(t) : HereStringAt(t, i) > 0

HasHashtable(t) == \E i \in 1..Len(t) : HashtableAt(t, i) > 0

\* an if (...) {...} else {...} that starts and ends on one line
HasSingleLineIfElse(t) ==
    \E i \in 1..Len(t) :
        IfElseAt(t, i) > 0 /\ CountChar(t, i, IfElseAt(t, i) - 1, "\n") = 0

\* (number of '{' in the text) - (number of '}' in the text)
NaiveDifference(t) == CountChar(t, 1, Len(t), "{") - CountChar(t, 1, Len(t), "}")

\* C9 as stated: for a text with no here-string, no hashtable literal and no
\* single-line if/else, the reported open count minus close count is the
\* number of '{' minus the number of '}' of the text as it was read.
C9_NoPatternNaiveDifference ==
    (/\ pc = "fb_done"
     /\ ~HasHereString(ps_content)
     /\ ~HasHashtable(ps_content)
     /\ ~HasSingleLineIfElse(ps_content))
        => Len(open_braces) - Len(close_braces) = NaiveDifference(ps_content)

\* C10: for the text @{ a = 1; b = 2 } alone the brace checker reports no
\* opening and no closing brace: the literal is removed before the count.
C10_HashtableElided ==
    (pc = "fb_done" /\ ps_content = T_hashtable) =>
        /\ open_braces = <<>>
        /\ close_braces = <<>>
        /\ content_clean = <<>>
        /\ balanced = TRUE

C10_Witness ==
    /\ pc = "fb_done" /\ ps_content = T_hashtable
    /\ Len(open_braces) = 0 /\ Len(close_braces) = 0

\* the positions at which lit stands in t
Occurrences(t, lit) == {i \in 1..Len(t) : MatchLit(t, i, lit) > 0}

\* exactly one opening mark and, after it, exactly one closing mark, five
\* lines from the one to the other; outside them three '{' and three '}' and
\* neither an at sign nor an if
OneHereStringThreePairs(t) ==
    \E opens \in {Occurrences(t, L_here_open)} :
    \E closes \in {Occurrences(t, L_here_close)} :
        /\ Cardinality(opens) = 1 /\ Cardinality(closes) = 1
        /\ \E a \in opens, b \in closes :
           \E outside \in {SubSeq(t, 1, a - 1) \o SubSeq(t, b + 2, Len(t))} :
              /\ b >= a + 2
              /\ CountChar(t, a, b, "\n") = 4
              /\ CountChar(outside, 1, Len(outside), "{") = 3
              /\ CountChar(outside, 1, Len(outside), "}") = 3
              /\ CountChar(outside, 1, Len(outside), "@") = 0
              /\ Occurrences(outside, L_if) = {}

\* C11: for a text with exactly one matched here-string of five lines and
\* three unrelated pairs of braces outside it, the brace checker reports
\* three opening and three closing braces, whatever braces the here-string
\* holds.
C11_HereStringBracesNotCounted ==
    (pc = "fb_done" /\ OneHereStringThreePairs(ps_content)) =>
        Len(open_braces) = 3 /\ Len(close_braces) = 3

\* a here-string that holds more opening than closing braces
C11_Witness ==
    /\ pc = "fb_done"
    /\ OneHereStringThreePairs(ps_content)
    /\ NaiveDifference(ps_content) > 0
    /\ Len(open_braces) = 3 /\ Len(close_braces) = 3

\* the 'Long lines' violations of the metrics
LongLineViolations(m) == SelectSeq(m.violations, LAMBDA v : v.rule = "Long lines")

\* the rule fired once and counted one line
OneLongLineReported(m) ==
    /\ m.long_lines = 1
    /\ LongLineViolations(m) = <<Violation("Long lines", 1, 0)>>

\* C12 as stated: a document with exactly one line of 150 characters, every
\* other line of at most 120, fires the line-length rule; one violation is
\* appended and it counts one line.
C12_OneLineOf150 ==
    (/\ Scanned
     /\ \E lines \in {SplitLines(file_text)} :
           /\ Cardinality({k \in 1..Len(lines) : Len(lines[k]) = LineLimit + 30}) = 1
           /\ \A k \in 1..Len(lines) :
                 Len(lines[k]) = LineLimit + 30 \/ Len(lines[k]) <= LineLimit)
        => OneLongLineReported(file_metrics)

\* C12, amended: a document with exactly one line whose length without its
\* leading and trailing white space is 150, every other line being of at
\* most 120 characters so measured, fires the line-length rule; one violation
\* is appended and it counts one line.
C12_OneStrippedLineOf150 ==
    (/\ Scanned
     /\ \E lines \in {SplitLines(file_text)} :
           /\ Cardinality({k \in 1..Len(lines) :
                              Len(Strip(lines[k])) = LineLimit + 30}) = 1
           /\ \A k \in 1..Len(lines) :
                 Len(Strip(lines[k])) = LineLimit + 30 \/ Len(Strip(lines[k])) <= LineLimit)
        => OneLongLineReported(file_metrics)

\* an indented line of 154 characters, 150 without the indentation
C12_Witness ==
    /\ Scanned
    /\ \E lines \in {SplitLines(file_text)} :
          /\ \E k \in 1..Len(lines) :
                Len(lines[k]) > LineLimit + 30 /\ Len(Strip(lines[k])) = LineLimit + 30
          /\ \A k \in 1..Len(lines) :
                Len(Strip(lines[k])) = LineLimit + 30 \/ Len(Strip(lines[k])) <= LineLimit
    /\ OneLongLineReported(file_metrics)

\* the metrics as the rules before the secrets rule left them (63-94)
BeforeSecrets(lines, content) ==
    RuleUsings(
      RuleNaming(
        RuleDocumentation(RuleLongLines(NewMetrics(lines), lines), content),
        content),
      lines)

\* the text holds password = "abc123" in some letter case
HasPasswordAssignment(t) == Occurrences(ToLower(t), ToLower(T_secret)) # {}

\* the assignments of a quoted literal to a name ending in 'password' or 'key'
SecretAssignments(t) ==
    Cardinality(Occurrences(ToLower(t), ToLower(T_secret)))
    + Cardinality(Occurrences(ToLower(t), SubSeq(T_api_key, 5, Len(T_api_key))))

\* C13: on a text holding password = "abc123" in any letter case the secrets
\* rule fires exactly once, however many secret assignments the text holds and
\* whether one or both patterns match: hardcoded_strings is 1, issues grows by
\* exactly 1 and exactly one security violation is appended.
C13_SecretsRuleFiresOnce ==
    (Scanned /\ HasPasswordAssignment(file_text)) =>
        \E before \in {BeforeSecrets(ReadLines(file_text), file_text)} :
        \E after \in {RuleSecrets(before, file_text)} :
            /\ after.hardcoded_strings = 1
            /\ after.issues = before.issues + 1
            /\ after.violations = Append(before.violations, Violation("Security", 0, 0))
            /\ file_metrics = RuleComplexity(RuleMagic(after, file_text), file_text)
            /\ file_metrics.hardcoded_strings = 1
            /\ Len(SelectSeq(file_metrics.violations, LAMBDA v : v.rule = "Security")) = 1

\* several assignments in several cases, both patterns matching, one violation
C13_Witness ==
    /\ Scanned
    /\ HasPasswordAssignment(file_text)
    /\ Occurrences(file_text, ToLower(T_secret)) = {}
    /\ Occurrences(file_text, L_api_key) # {}
    /\ SecretAssignments(file_text) >= 2
    /\ SecretMatches(file_text, SecretNames1) >= 2
    /\ SecretMatches(file_text, SecretNames2) >= 1
    /\ file_metrics.hardcoded_strings = 1
    /\ Len(SelectSeq(file_metrics.violations, LAMBDA v : v.rule = "Security")) = 1

(***************************************************************************)
(* The pre-commit hook: main and check_csharp_files                        *)
(* (scripts/pre-commit-quality-check.py 13-92)                             *)
(***************************************************************************)
HookShown == 5

\* how subprocess.run(['git', 'diff', ...], check=True) ends: git prints the
\* staged names, git exits with a nonzero status, git cannot be launched, or
\* git never exits (the call has no timeout)
GitOutcomes == {"exit0", "nonzero", "not_found", "hangs"}

\* result.stdout, line by line
GitOutputs == {<<>>, <<P_a>>, <<P_notes>>, <<P_a, P_b>>, <<P_b, P_notes, P_a>>}

\* the exceptions open() and f.read() raise on a file that is there
ReadErrors == {"PermissionError", "UnicodeDecodeError"}

SixLongLines == [k \in 1..(HookShown + 1) |-> "long_line"]

StagedStates ==
    {Absent, Unreadable, TextFile(<<"summary", "pascal_prop">>), TextFile(<<"camel_prop">>),
     TextFile(EveryRule), TextFile(SixLongLines)}

\* the lines check_csharp_files adds for a file with issues (61-66)
FileReport(file_path, found) ==
    <<[kind |-> "file", file |-> file_path]>>
    \o [k \in 1..Min(HookShown, Len(found)) |-> [kind |-> "issue", issue |-> found[k]]]
    \o (IF Len(found) > HookShown
        THEN <<[kind |-> "more", count |-> Len(found) - HookShown]>>
        ELSE <<>>)

HookInit ==
    /\ ScoreIdle /\ OrchIdle /\ ScanIdle /\ BraceIdle
    /\ pc = "hk_main"
    /\ git_dir \in BOOLEAN
    /\ git_status = None
    /\ staged_files = <<>>
    /\ staged_index = 0
    /\ hook_issues = <<>>
    /\ \E a, b \in StagedStates :
          disk = (P_a :> a) @@ (P_b :> b) @@ (P_notes :> TextFile(<<"secret">>))
    /\ cs_files = <<>>
    /\ file_index = 0
    /\ analysis_metrics = None
    /\ analysis_results = None
    /\ sorted_files = <<>>

\* main up to the call of check_csharp_files (70-77)
HK_Main ==
    /\ pc = "hk_main"
    /\ IF git_dir
       THEN pc' = "hk_git" /\ UNCHANGED exit_status
       ELSE pc' = "hk_done" /\ exit_status' = 1
    /\ UNCHANGED <<scoreVars, script, existing, server_content, ps_cmd, python_results, ps_results,
                   all_results, test_scripts, report, uncaught,
                   scanVars, repoVars, braceVars, hookVars>>

\* the git diff call and the list of staged files (17-26)
HK_GitDiff ==
    /\ pc = "hk_git"
    /\ \E outcome \in GitOutcomes, stdout \in GitOutputs :
          /\ git_status' = outcome
          /\ CASE outcome = "exit0" ->
                    /\ staged_files' = SelectSeq(stdout, LAMBDA f : EndsWith(f, L_cs))
                    /\ staged_index' = 1
                    /\ pc' = IF staged_files' = <<>> THEN "hk_return" ELSE "hk_file"
                    /\ UNCHANGED <<hook_issues, uncaught, exit_status>>
               [] outcome = "nonzero" ->
                    /\ hook_issues' = <<[kind |-> "failed to get staged files"]>>
                    /\ pc' = "hk_return"
                    /\ UNCHANGED <<staged_files, staged_index, uncaught, exit_status>>
               [] outcome = "not_found" ->
                    /\ uncaught' = "FileNotFoundError"
                    /\ pc' = "hk_done"
                    /\ exit_status' = UncaughtExit
                    /\ UNCHANGED <<staged_files, staged_index, hook_issues>>
               [] outcome = "hangs" ->
                    /\ pc' = "blocked"
                    /\ UNCHANGED <<staged_files, staged_index, hook_issues, uncaught,
                                   exit_status>>
    /\ UNCHANGED <<scoreVars, script, existing, server_content, ps_cmd, python_results, ps_results,
                   all_results, test_scripts, report,
                   scanVars, repoVars, braceVars, git_dir>>

\* one turn of the loop over staged_files (28-66)
HK_CheckFile ==
    /\ pc = "hk_file"
    /\ staged_index <= Len(staged_files)
    /\ \E file_path \in {staged_files[staged_index]} :
          IF ~disk[file_path].present
          THEN /\ staged_index' = staged_index + 1
               /\ pc' = IF staged_index' > Len(staged_files) THEN "hk_return" ELSE "hk_file"
               /\ UNCHANGED <<hook_issues, uncaught, exit_status>>
          ELSE IF ~disk[file_path].readable
          THEN /\ uncaught' \in ReadErrors
               /\ pc' = "hk_done"
               /\ exit_status' = UncaughtExit
               /\ UNCHANGED <<hook_issues, staged_index>>
          ELSE \E found \in {HookFileIssues(FileText(disk, file_path))} :
               /\ hook_issues' = IF found # <<>>
                                 THEN hook_issues \o FileReport(file_path, found)
                                 ELSE hook_issues
               /\ staged_index' = staged_index + 1
               /\ pc' = IF staged_index' > Len(staged_files) THEN "hk_return" ELSE "hk_file"
               /\ UNCHANGED <<uncaught, exit_status>>
    /\ UNCHANGED <<scoreVars, script, existing, server_content, ps_cmd, python_results, ps_results,
                   all_results, test_scripts, report,
                   scanVars, repoVars, braceVars, git_dir, git_status, staged_files>>

\* main after check_csharp_files returned (82-92)
HK_Return ==
    /\ pc = "hk_return"
    /\ pc' = "hk_done"
    /\ exit_status' = IF hook_issues # <<>> THEN 1 ELSE 0
    /\ UNCHANGED <<scoreVars, script, existing, server_content, ps_cmd, python_results, ps_results,
                   all_results, test_scripts, report, uncaught,
                   scanVars, repoVars, braceVars, hookVars>>

HookNext == HK_Main \/ HK_GitDiff \/ HK_CheckFile \/ HK_Return

SpecHook == HookInit /\ [][HookNext]_vars

\* the staged file the hook is about to read is there and cannot be read
ReadFails ==
    /\ pc = "hk_file"
    /\ disk[staged_files[staged_index]].present
    /\ ~disk[staged_files[staged_index]].readable

\* C14 as stated, for check_csharp_files: a staged file that cannot be read
\* is skipped: the failure is caught, the file adds nothing to the issues and
\* the loop goes on with the next file.
C14_ReadFailureSkipsFile ==
    [][ReadFails =>
          /\ uncaught' = None
          /\ hook_issues' = hook_issues
          /\ staged_index' = staged_index + 1
          /\ pc' \in {"hk_file", "hk_return"}]_vars

(***************************************************************************)
(* All the scripts that start external processes: the three orchestrators  *)
(* and the pre-commit hook.  A script is one sequential process: whenever  *)
(* it has a next step, it takes it.                                        *)
(***************************************************************************)
ScriptsInit == OrchInit \/ HookInit

ScriptsNext == OrchNext \/ HookNext

SpecScripts == ScriptsInit /\ [][ScriptsNext]_vars

\* the steps that start external processes
CallSteps ==
    {"ra_probe", "ra_python", "bf_powershell", "bf_validation", "cf_integration", "hk_git"}

\* C15 as stated: an external process that exits with a nonzero status, runs
\* into its timeout or cannot be launched becomes a FAIL or PARTIAL result or
\* an error value of the caller; the step that made the call never ends the
\* script with an uncaught exception.
C15_ProcessFailuresAreResults ==
    [][(pc \in CallSteps) => (uncaught' = None)]_vars

\* an orchestrator is one sequential process: whenever it has a next step, it
\* takes it
FairSpecOrch == SpecOrch /\ WF_vars(OrchNext)

\* C16 as stated: whichever orchestrator runs and whatever its steps find,
\* main goes through all its steps, writes its report, prints its summary and
\* reaches its return statement: the run ends, and no exception ended it.
C16_MainReachesReturn ==
    <>(pc = "exited" /\ uncaught = None /\ exit_status \in {0, 1})

\* the script is past its external calls, or between two of them
PastCall == pc \notin (CallSteps \cup {"blocked"})

\* C17 as stated: an external call never blocks a script: from every step
\* that starts an external process the script gets to a later step.
C17_ExternalCallsReturn == (pc \in CallSteps) ~> PastCall

\* the issue counts fall, or stay, from each entry to the next
FallingIssues(details) ==
    \A k \in 1..(Len(details) - 1) : details[k].issues >= details[k + 1].issues

\* C18 as stated: the file discovery of analyze_repository_standards keeps no
\* .cs file whose path has a directory named bin, obj, .git or packages, at
\* whatever depth, a file lying directly in such a directory included.
C18_NoFileUnderSkippedDirectory ==
    pc \in {"rs_loop", "rs_done", "rs_shown"} =>
        \A k \in 1..Len(cs_files) : \A skip \in SkipMarks : ~Contains(cs_files[k], skip)

\* C19 as stated: file_details of the record analyze_repository_standards
\* returns is sorted by falling issue count, whatever the files and the order
\* of the walk.
C19_FileDetailsSorted ==
    pc \in {"rs_done", "rs_shown"} => FallingIssues(analysis_results.file_details)

\* C19, amended: the list show_repository_analysis makes of file_details
\* (sorted_files) holds the same entries sorted by falling issue count,
\* entries with equal counts in the order of file_details; file_details itself
\* holds the files with issues in the order the walk found them.
C19_SortedFilesSorted ==
    pc = "rs_shown" =>
        /\ FallingIssues(sorted_files)
        /\ Len(sorted_files) = Len(analysis_results.file_details)
        /\ \A k \in 1..Len(sorted_files) :
              \E h \in 1..Len(sorted_files) : analysis_results.file_details[h] = sorted_files[k]
        /\ \A k, h \in 1..Len(sorted_files) :
              (k < h /\ sorted_files[k].issues = sorted_files[h].issues) =>
                 \E a, b \in 1..Len(sorted_files) :
                    /\ a < b
                    /\ analysis_results.file_details[a] = sorted_files[k]
                    /\ analysis_results.file_details[b] = sorted_files[h]
        /\ \E order \in {SelectSeq(cs_files, LAMBDA f :
                            \E k \in 1..Len(sorted_files) : sorted_files[k].file = f)} :
              order = [k \in 1..Len(order) |-> analysis_results.file_details[k].file]

\* three files with issues, found in an order that is not the sorted one
C19_Witness ==
    /\ pc = "rs_shown"
    /\ Len(sorted_files) >= 3
    /\ ~FallingIssues(analysis_results.file_details)
    /\ FallingIssues(sorted_files)
    /\ \E k \in 1..(Len(sorted_files) - 1) : sorted_files[k].issues = sorted_files[k + 1].issues

\* the text has the opening mark of a here-string and no closing mark after
\* it, an at sign and brace with no closing brace after it, or parentheses
\* that do not pair up
UnclosedHereString(t) ==
    \E a \in Occurrences(t, L_here_open) :
        \A b \in Occurrences(t, L_here_close) : b < a + 2

UnclosedHashtable(t) ==
    \E a \in Occurrences(t, <<"@", "{">>) : CountChar(t, a, Len(t), "}") = 0

UnbalancedParentheses(t) ==
    CountChar(t, 1, Len(t), "(") # CountChar(t, 1, Len(t), ")")

\* the counts and the verdict find_unbalanced_braces gives for its text
BraceResult ==
    /\ Len(open_braces) = CountChar(content_clean, 1, Len(content_clean), "{")
    /\ Len(close_braces) = CountChar(content_clean, 1, Len(content_clean), "}")
    /\ balanced \in BOOLEAN
    /\ balanced = (Len(open_braces) = Len(close_braces))

\* the text after the four substitutions, one after the other (14-23)
Substituted(content) ==
    RemoveDollarIfElse(RemoveIfElse(RemoveHashtables(RemoveHereStrings(content))))

LastOf(shown, tokens) ==
    /\ Len(shown) = Min(TokensShown, Len(tokens))
    /\ \A k \in 1..Len(shown) : shown[k] = tokens[Len(tokens) - Len(shown) + k]

\* C21: when the counts of open and close braces differ, the checker lists
\* exactly the last min(10, n) open tokens and the last min(10, n) close
\* tokens in scan order; when they are equal it lists no token; and it returns
\* True iff the counts are equal.
C21_LastTokensListed ==
    pc = "fb_done" =>
        /\ balanced = (Len(open_braces) = Len(close_braces))
        /\ IF Len(open_braces) # Len(close_braces)
           THEN LastOf(last_open, open_braces) /\ LastOf(last_close, close_braces)
           ELSE last_open = <<>> /\ last_close = <<>>

\* twelve open braces of which ten are listed, three close braces all listed
C21_Witness ==
    /\ pc = "fb_done"
    /\ Len(open_braces) > TokensShown
    /\ Len(close_braces) \in 1..(TokensShown - 1)
    /\ Len(last_open) = TokensShown
    /\ last_open[1] = open_braces[Len(open_braces) - TokensShown + 1]
    /\ last_open[1] # open_braces[1]
    /\ last_close = close_braces
    /\ balanced = FALSE

\* C25 as stated: the text of each brace token is the trimmed text of the line
\* of the text as it was read that has the token's line number, and that
\* number is the line's number in the text as it was read, whatever the
\* substitutions removed before it.
C25_TokensNameOriginalLines ==
    pc = "fb_done" =>
        \E original \in {SplitLines(ps_content)} :
        \A token \in SeqRange(open_braces) \cup SeqRange(close_braces) :
            /\ token.line <= Len(original)
            /\ token.text = Strip(original[token.line])

Orders(n) == {p \in [1..n -> 1..n] : \A a, b \in 1..n : p[a] = p[b] => a = b}

RECURSIVE SumInOrder(_, _, _, _)
\* the metrics of the files added up key by key, the files taken in the order p
SumInOrder(file_sums, p, k, sum) ==
    IF k > Len(p) THEN sum
    ELSE SumInOrder(file_sums, p, k + 1,
                    [key \in MetricKeys |-> sum[key] + file_sums[p[k]][key]])

\* what analyze_repository_standards makes of summed metrics: the four totals,
\* issues_found and the summary violations
AggregateOf(m) ==
    [ critical |-> m.hardcoded_strings,
      major |-> m.missing_docs + m.camel_case_props + m.complex_methods,
      minor |-> m.long_lines + m.unused_usings + m.magic_numbers,
      fixable |-> m.missing_docs + m.camel_case_props + m.complex_methods
                  + m.long_lines + m.unused_usings + m.magic_numbers,
      issues_found |-> m.hardcoded_strings
                       + m.missing_docs + m.camel_case_props + m.complex_methods
                       + m.long_lines + m.unused_usings + m.magic_numbers,
      violations |-> SummaryViolations(m) ]

\* the aggregate of the record analyze_repository_standards returned
ReturnedAggregate ==
    [ critical |-> analysis_results.issues.critical,
      major |-> analysis_results.issues.major,
      minor |-> analysis_results.issues.minor,
      fixable |-> analysis_results.issues.fixable,
      issues_found |-> analysis_results.summary.issues_found,
      violations |-> analysis_results.violations ]

\* the aggregate and the score are those of the sums taken in every order
EveryOrderGives(file_sums) ==
    \A p \in Orders(Len(file_sums)) :
    \E aggregate \in {AggregateOf(SumInOrder(file_sums, p, 1, [key \in MetricKeys |-> 0]))} :
        /\ aggregate = ReturnedAggregate
        /\ pc = "rs_shown" => quality_score = calculate_quality_score(aggregate)

RECURSIVE OrdersAgree(_, _)
\* file_sums holds the metrics of the files of cs_files before the k-th, those
\* of a file that cannot be read being all 0
OrdersAgree(k, file_sums) ==
    IF k > Len(cs_files) THEN EveryOrderGives(file_sums)
    ELSE IF ~disk[cs_files[k]].readable
    THEN OrdersAgree(k + 1, Append(file_sums, [key \in MetricKeys |-> 0]))
    ELSE \E text \in {FileText(disk, cs_files[k])} :
         \E metrics \in {analyze_file_standards(ReadLines(text), text)} :
            OrdersAgree(k + 1, Append(file_sums, metrics))

\* C23: the aggregate analyze_repository_standards produces (the critical,
\* major, minor and fixable totals, issues_found, the summary violations, and
\* with them the quality score) is the one every order of analyzing the files
\* gives.
C23_AggregateOrderFree ==
    pc \in {"rs_done", "rs_shown"} => OrdersAgree(1, <<>>)

\* three files analyzed, with different metrics, the bin directory walked
\* before the Shared directory
C23_Witness ==
    /\ pc = "rs_shown"
    /\ Len(cs_files) = 3
    /\ cs_files[2] = P_c
    /\ \A k \in 1..3 : disk[cs_files[k]].readable
    /\ Len(analysis_results.file_details) = 3
    /\ analysis_results.file_details[1].issues # analysis_results.file_details[2].issues
    /\ analysis_results.summary.issues_found >= 3

\* no staged .cs file that is there and can be read gives an issue
NoStagedFileHasIssues ==
    \A k \in 1..Len(staged_files) :
        (disk[staged_files[k]].present /\ disk[staged_files[k]].readable)
            => HookFileIssues(FileText(disk, staged_files[k])) = <<>>

\* C24 as stated: the hook ends with status 0 iff the working directory is a
\* git repository, the listing of the staged files succeeded and no staged
\* .cs file that exists gives a line-length, naming, magic-number or
\* documentation issue; in every other case main returns 1.
C24_ZeroIffCleanCommit ==
    pc = "hk_done" =>
        /\ exit_status \in {0, 1}
        /\ exit_status = 0 <=> (git_dir /\ git_status = "exit0" /\ NoStagedFileHasIssues)

\* the numbers of the lines that are longer than 120 characters without
\* their leading and trailing white space
TrimmedLongLines(lines) == {k \in 1..Len(lines) : Len(Strip(lines[k])) > LineLimit}

\* the line numbers a scanner reported under its line-length rule
ReportedLines(found) ==
    UNION {IF "kind" \in DOMAIN found[k] /\ found[k].kind = "line length"
               THEN {found[k].line}
           ELSE IF "type" \in DOMAIN found[k] /\ found[k].type = "Line Length"
               THEN SeqRange(found[k].lines)
           ELSE {} : k \in 1..Len(found)}

\* C26 as stated: the three scanners measure the trimmed length of a line,
\* so for one text analyze_file_standards counts, and check_csharp_files and
\* analyze_csharp_violations list, exactly the lines longer than 120
\* characters after stripping.
C26_ScannersAgreeOnTrimmedLength ==
    pc = "analyzed" =>
        \E trimmed \in {TrimmedLongLines(SplitLines(file_text))} :
            /\ file_metrics.long_lines = Cardinality(trimmed)
            /\ ReportedLines(file_issues) = trimmed
            /\ ReportedLines(csharp_violations) = trimmed

\* the three statuses a result of the fix testers can have
FixStatuses == {"PASS", "PARTIAL", "FAIL"}

\* success_rate is 0 without tests and lies within [0, 100] otherwise
RateInRange(summary) ==
    /\ summary.total_tests = 0 => summary.rate_num = 0
    /\ 0 <= summary.rate_num
    /\ summary.rate_num <= 100 * summary.rate_den

\* C27: in the reports of test-bug-fixes and test-critical-fixes every
\* result is PASS, PARTIAL or FAIL and total_tests = passed + partial +
\* failed; in the report of run-all-tests total_tests = passed + failed and
\* 0 <= passed <= total_tests; success_rate is 0 when there are no tests and
\* within [0, 100] otherwise.
C27_ReportCountsAddUp ==
    /\ pc \in {"bf_summary", "cf_summary"} =>
          /\ \A k \in 1..Len(all_results) : all_results[k].status \in FixStatuses
          /\ report.total_tests = Len(all_results)
          /\ report.total_tests = report.passed + report.partial + report.failed
          /\ RateInRange(report)
    /\ pc = "ra_summary" =>
          /\ report.total_tests = Len(python_results) + Len(ps_results)
          /\ report.total_tests = report.passed + report.failed
          /\ 0 <= report.passed /\ report.passed <= report.total_tests
          /\ RateInRange(report)

\* a report of test-critical-fixes with passed, partial and failed results
C27_Witness ==
    /\ pc = "cf_summary"
    /\ report.passed > 0 /\ report.partial > 0 /\ report.failed > 0
    /\ report.total_tests = report.passed + report.partial + report.failed

\* the PowerShell scripts among the discovered ones, in order
DiscoveredPowerShell == SelectSeq(test_scripts, LAMBDA s : s.type = "powershell")

\* C28: in run-all-tests every discovered PowerShell script has exactly one
\* result and that result is PASS, whether check_powershell_availability
\* found an interpreter or not.
C28_PowerShellResultsAlwaysPass ==
    pc \in {"ra_report", "ra_summary"} =>
        \E discovered \in {DiscoveredPowerShell} :
            /\ Len(ps_results) = Len(discovered)
            /\ \A k \in 1..Len(discovered) :
                  ps_results[k] = Result(discovered[k].name, "PASS")

\* an interpreter was found and the policy validator is among several
\* scripts that were simulated all the same
C28_Witness ==
    /\ pc = "ra_report"
    /\ ps_cmd = "pwsh"
    /\ Len(ps_results) >= 2
    /\ \E k \in 1..Len(ps_results) : ps_results[k].name \in NamesWithPolicy

\* C29 as stated: the 'Async Void Elimination' result is PASS only when the
\* text 'async void OnRequestReceived' does not occur in the checked file.
C29_PassOnlyWithoutAsyncVoid ==
    \A k \in 1..Len(all_results) :
        (all_results[k].name = "Async Void Elimination" /\ all_results[k].status = "PASS")
            => AsyncVoid \notin server_content

RECURSIVE IssuesIn(_)
\* the issue counts of the entries of file_details, added up
IssuesIn(details) ==
    IF details = <<>> THEN 0 ELSE Head(details).issues + IssuesIn(Tail(details))

\* the files of cs_files that could be read, and so were scanned
FilesRead == SelectSeq(cs_files, LAMBDA cs_file : disk[cs_file].readable)

\* C30 as stated: after analyze_repository_standards, summary.issues_found is
\* the sum of the issue counts in file_details, and summary.files_analyzed is
\* the number of files that were read and scanned.
C30_SummaryMatchesFileDetails ==
    pc \in {"rs_done", "rs_shown"} =>
        /\ analysis_results.summary.issues_found = IssuesIn(analysis_results.file_details)
        /\ analysis_results.summary.files_analyzed = Len(FilesRead)
====
